---- MODULE Spec2Model ----
(***************************************************************************)
(* Ordered-collection maintenance of the shopping-list store (package db): *)
(* lists, sections of a list and items of a section, each row carrying an  *)
(* integer sort_order, and the is_active flag of lists.  Every db function *)
(* is one action; its SQL statements are applied in program order to the   *)
(* tables, which are sets of rows.                                         *)
(***************************************************************************)
EXTENDS Integers, FiniteSets, Sequences, TLC

VARIABLES
    lists,      \* table lists:    rows [id, sort_order, is_active]
    sections,   \* table sections: rows [id, list_id, sort_order]
    items,      \* table items:    rows [id, section_id, completed, sort_order]
    level,      \* which sibling group the behaviour exercises
    pre,        \* the three tables as they were when the last call began
    last,       \* the last call: [op, id, dst, pos, err, failed, result]
    procs,      \* concurrent callers: [pc, id, view, maxOrder] each
    lock,       \* the caller whose transaction holds the store's write lock, or 0
    history,    \* table item_history: rows [id, name, last_section_id, usage_count]
    read        \* a tree read in progress: [pc, list, todo, tree]

vars == <<lists, sections, items, level, pre, last, procs, lock, history, read>>

-----------------------------------------------------------------------------
(* Bounds of the model *)

MaxLists == 3
MaxSections == 3
MaxItems == 3
MaxOrder == 3
MaxProcs == 3
MaxHistory == 3
MaxUsage == 2
MaxTime == 3
MaxLen == 3

ListIds == 1..MaxLists
SectionIds == 1..MaxSections
ItemIds == 1..MaxItems
Positions == -1..MaxItems
Procs == 1..MaxProcs
HistoryIds == 1..MaxHistory

\* item names: sequences of letters; "e'" and "E'" stand for the letter e with
\* acute accent in lower and in upper case (U+00E9, U+00C9)
Names == {<<"m", "i">>, <<"M", "I">>, <<"M", "i">>, <<"e'">>, <<"E'">>}

-----------------------------------------------------------------------------
(* SQL helpers *)

\* COALESCE(MAX(sort_order), -1) over a set of rows
MaxSortOrder(rows) ==
    IF rows = {} THEN -1
    ELSE CHOOSE m \in {r.sort_order : r \in rows} :
            \A r \in rows : r.sort_order <= m

\* the id the store hands to an inserted row (result.LastInsertId)
NewId(rows, pool) == CHOOSE i \in pool \ {r.id : r \in rows} :
                        \A j \in pool \ {r.id : r \in rows} : i <= j

\* SELECT ... WHERE id = ?  (the row, when there is one)
RowOf(rows, id) == CHOOSE r \in rows : r.id = id
Exists(rows, id) == \E r \in rows : r.id = id

\* what the schema's ON DELETE CASCADE leaves of the sections (list_id
\* references lists) and of the items (section_id references sections)
CascadeSections(secs, ls) == {s \in secs : Exists(ls, s.list_id)}
CascadeItems(its, secs) == {i \in its : Exists(secs, i.section_id)}

Store == [lists |-> lists, sections |-> sections, items |-> items,
          history |-> history]

EmptyStore == [lists |-> {}, sections |-> {}, items |-> {}, history |-> {}]

\* The declaration of item_history gives the deletion of a section no effect
\* on the history rows that name it: whatever secs remain, the rows stay.
CascadeHistory(hs, secs) == hs

\* a call and how it returned; failed: the statement of the call that failed
\* (0: none); result: the rows a read returned
Call(op, id, dst, pos, err) ==
    [op |-> op, id |-> id, dst |-> dst, pos |-> pos, err |-> err,
     failed |-> 0, result |-> <<>>]

\* no tree read has begun
NoRead == [pc |-> "idle", list |-> 0, todo |-> <<>>, tree |-> <<>>]

NoCall == Call("init", 0, 0, 0, FALSE)

\* pre and last are history variables: they record one call of the behaviour,
\* any one, with the tables as that call found them; the behaviour is followed
\* up to its recorded call
Running(lv) == level = lv /\ last = NoCall
RunningIn(lvs) == level \in lvs /\ last = NoCall

RecordCall(call) ==
    /\ UNCHANGED <<level, procs, lock, read>>
    /\ \/ UNCHANGED <<pre, last>>
       \/ /\ pre' = Store
          /\ last' = call

\* a call on lists, sections or items
Record(op, id, dst, pos, err) ==
    /\ RecordCall(Call(op, id, dst, pos, err))
    /\ UNCHANGED history

-----------------------------------------------------------------------------
(* Lists *)

\* INSERT INTO lists (..., sort_order, is_active) VALUES (..., maxOrder+1, FALSE)
ListsAfterCreate(ls) ==
    ls \cup {[id |-> NewId(ls, ListIds),
              sort_order |-> MaxSortOrder(ls) + 1,
              is_active |-> FALSE]}

CreateList ==
    /\ Running("lists")
    /\ Cardinality(lists) < MaxLists
    /\ MaxSortOrder(lists) + 1 <= MaxOrder
    /\ lists' = ListsAfterCreate(lists)
    /\ UNCHANGED <<sections, items>>
    /\ Record("CreateList", NewId(lists, ListIds), 0, 0, FALSE)

\* DELETE FROM lists WHERE id = ?   (no row: nothing deleted, no error)
ListsAfterDelete(ls, id) == {l \in ls : l.id # id}

DeleteList(id) ==
    /\ RunningIn({"lists", "items", "lifecycle"})
    /\ lists' = ListsAfterDelete(lists, id)
    /\ sections' = CascadeSections(sections, lists')
    /\ items' = CascadeItems(items, sections')
    /\ history' = CascadeHistory(history, sections')
    /\ RecordCall(Call("DeleteList", id, 0, 0, FALSE))

\* UPDATE lists SET is_active = FALSE
Deactivated(ls) == {[l EXCEPT !.is_active = FALSE] : l \in ls}

\* UPDATE lists SET is_active = TRUE ... WHERE id = ?
Activated(ls, id) ==
    {IF l.id = id THEN [l EXCEPT !.is_active = TRUE] ELSE l : l \in ls}

ListsAfterSetActive(ls, id) == Activated(Deactivated(ls), id)

SetActiveList(id) ==
    /\ Running("lists")
    /\ lists' = ListsAfterSetActive(lists, id)
    /\ UNCHANGED <<sections, items>>
    /\ Record("SetActiveList", id, 0, 0, FALSE)

\* Variant of MoveListUp without the first UPDATE: the list above is not
\* pushed down.
ListsAfterMoveUpNoShift(ls, id) ==
    LET currentOrder == RowOf(ls, id).sort_order
    IN  IF currentOrder = 0 THEN ls
        ELSE {IF l.id = id THEN [l EXCEPT !.sort_order = currentOrder - 1]
              ELSE l : l \in ls}

ListsAfterMoveUp(ls, id) ==
    LET currentOrder == RowOf(ls, id).sort_order
        shifted == {IF l.sort_order = currentOrder - 1
                    THEN [l EXCEPT !.sort_order = @ + 1] ELSE l : l \in ls}
    IN  IF currentOrder = 0 THEN ls
        ELSE {IF l.id = id THEN [l EXCEPT !.sort_order = currentOrder - 1]
              ELSE l : l \in shifted}

MoveListUp(id) ==
    /\ Running("lists")
    /\ IF Exists(lists, id)
       THEN /\ lists' = ListsAfterMoveUp(lists, id)
            /\ Record("MoveListUp", id, 0, 0, FALSE)
       ELSE /\ lists' = lists
            /\ Record("MoveListUp", id, 0, 0, TRUE)
    /\ UNCHANGED <<sections, items>>

\* Variant of MoveListDown that closes the gap by pulling every later list up,
\* instead of exchanging with the list at currentOrder + 1 only.
ListsAfterMoveDownShiftAll(ls, id) ==
    LET currentOrder == RowOf(ls, id).sort_order
        maxOrder == MaxSortOrder(ls)
        shifted == {IF l.sort_order > currentOrder
                    THEN [l EXCEPT !.sort_order = @ - 1] ELSE l : l \in ls}
    IN  IF currentOrder >= maxOrder THEN ls
        ELSE {IF l.id = id THEN [l EXCEPT !.sort_order = maxOrder]
              ELSE l : l \in shifted}

ListsAfterMoveDown(ls, id) ==
    LET currentOrder == RowOf(ls, id).sort_order
        maxOrder == MaxSortOrder(ls)
        shifted == {IF l.sort_order = currentOrder + 1
                    THEN [l EXCEPT !.sort_order = @ - 1] ELSE l : l \in ls}
    IN  IF currentOrder >= maxOrder THEN ls
        ELSE {IF l.id = id THEN [l EXCEPT !.sort_order = currentOrder + 1]
              ELSE l : l \in shifted}

MoveListDown(id) ==
    /\ Running("lists")
    /\ IF Exists(lists, id)
       THEN /\ lists' = ListsAfterMoveDown(lists, id)
            /\ Record("MoveListDown", id, 0, 0, FALSE)
       ELSE /\ lists' = lists
            /\ Record("MoveListDown", id, 0, 0, TRUE)
    /\ UNCHANGED <<sections, items>>

NextLists ==
    \/ CreateList
    \/ \E id \in ListIds : DeleteList(id)
    \/ \E id \in ListIds : SetActiveList(id)
    \/ \E id \in ListIds : MoveListUp(id)
    \/ \E id \in ListIds : MoveListDown(id)

-----------------------------------------------------------------------------
(* Sections *)

SectionsOf(secs, listID) == {s \in secs : s.list_id = listID}

\* Variant of CreateSectionForList whose MAX ranges over every list's sections.
SectionsAfterCreateGlobalMax(secs, listID) ==
    secs \cup {[id |-> NewId(secs, SectionIds),
                list_id |-> listID,
                sort_order |-> MaxSortOrder(secs) + 1]}

\* INSERT INTO sections (name, sort_order, list_id) VALUES (?, maxOrder+1, ?)
SectionsAfterCreate(secs, listID) ==
    secs \cup {[id |-> NewId(secs, SectionIds),
                list_id |-> listID,
                sort_order |-> MaxSortOrder(SectionsOf(secs, listID)) + 1]}

CreateSectionForList(listID) ==
    /\ Running("sections")
    /\ Exists(lists, listID)
    /\ Cardinality(sections) < MaxSections
    /\ MaxSortOrder(SectionsOf(sections, listID)) + 1 <= MaxOrder
    /\ sections' = SectionsAfterCreate(sections, listID)
    /\ UNCHANGED <<lists, items>>
    /\ Record("CreateSectionForList", NewId(sections, SectionIds), listID, 0, FALSE)

\* DELETE FROM sections WHERE id = ?
SectionsAfterDelete(secs, id) == {s \in secs : s.id # id}

\* Variant of DeleteSection that takes the history rows naming the section
\* with it.
DeleteSectionAndHistory(id) ==
    /\ RunningIn({"sections", "items", "lifecycle"})
    /\ sections' = SectionsAfterDelete(sections, id)
    /\ items' = CascadeItems(items, sections')
    /\ UNCHANGED lists
    /\ history' = {h \in history : h.last_section_id # id}
    /\ RecordCall(Call("DeleteSection", id, 0, 0, FALSE))

DeleteSection(id) ==
    /\ RunningIn({"sections", "items", "lifecycle"})
    /\ sections' = SectionsAfterDelete(sections, id)
    /\ items' = CascadeItems(items, sections')
    /\ UNCHANGED lists
    /\ history' = CascadeHistory(history, sections')
    /\ RecordCall(Call("DeleteSection", id, 0, 0, FALSE))

\* BEGIN;  for each id: DELETE FROM sections WHERE id = ?;  COMMIT
DeleteSections(ids) ==
    /\ Running("lifecycle")
    /\ sections' = {s \in sections : s.id \notin ids}
    /\ items' = CascadeItems(items, sections')
    /\ UNCHANGED lists
    /\ history' = CascadeHistory(history, sections')
    /\ RecordCall(Call("DeleteSections", 0, 0, 0, FALSE))

SectionsAfterMoveUp(secs, id) ==
    LET currentOrder == RowOf(secs, id).sort_order
        listID == RowOf(secs, id).list_id
        shifted == {IF s.sort_order = currentOrder - 1 /\ s.list_id = listID
                    THEN [s EXCEPT !.sort_order = @ + 1] ELSE s : s \in secs}
    IN  IF currentOrder = 0 THEN secs
        ELSE {IF s.id = id THEN [s EXCEPT !.sort_order = currentOrder - 1]
              ELSE s : s \in shifted}

MoveSectionUp(id) ==
    /\ Running("sections")
    /\ IF Exists(sections, id)
       THEN /\ sections' = SectionsAfterMoveUp(sections, id)
            /\ Record("MoveSectionUp", id, 0, 0, FALSE)
       ELSE /\ sections' = sections
            /\ Record("MoveSectionUp", id, 0, 0, TRUE)
    /\ UNCHANGED <<lists, items>>

SectionsAfterMoveDown(secs, id) ==
    LET currentOrder == RowOf(secs, id).sort_order
        listID == RowOf(secs, id).list_id
        maxOrder == MaxSortOrder(SectionsOf(secs, listID))
        shifted == {IF s.sort_order = currentOrder + 1 /\ s.list_id = listID
                    THEN [s EXCEPT !.sort_order = @ - 1] ELSE s : s \in secs}
    IN  IF currentOrder >= maxOrder THEN secs
        ELSE {IF s.id = id THEN [s EXCEPT !.sort_order = currentOrder + 1]
              ELSE s : s \in shifted}

MoveSectionDown(id) ==
    /\ Running("sections")
    /\ IF Exists(sections, id)
       THEN /\ sections' = SectionsAfterMoveDown(sections, id)
            /\ Record("MoveSectionDown", id, 0, 0, FALSE)
       ELSE /\ sections' = sections
            /\ Record("MoveSectionDown", id, 0, 0, TRUE)
    /\ UNCHANGED <<lists, items>>

NextSections ==
    \/ \E listID \in ListIds : CreateSectionForList(listID)
    \/ \E id \in SectionIds : DeleteSection(id)
    \/ \E id \in SectionIds : MoveSectionUp(id)
    \/ \E id \in SectionIds : MoveSectionDown(id)

-----------------------------------------------------------------------------
(* Items *)

ItemsOf(its, sectionID) == {i \in its : i.section_id = sectionID}
ActiveOf(its, sectionID) == {i \in ItemsOf(its, sectionID) : ~i.completed}

\* UPDATE items SET sort_order = ? WHERE id = ?
SetOrder(its, id, order) ==
    {IF i.id = id THEN [i EXCEPT !.sort_order = order] ELSE i : i \in its}

\* the ways the store may return rows under ORDER BY sort_order ASC:
\* sequences of the rows' ids, ties in any order
RowsAsc(rows) ==
    LET n == Cardinality(rows)
        ids == {r.id : r \in rows}
    IN  {q \in [1..n -> ids] :
            /\ \A a, b \in 1..n : a # b => q[a] # q[b]
            /\ \A a, b \in 1..n :
                 a < b => RowOf(rows, q[a]).sort_order <= RowOf(rows, q[b]).sort_order}

\* INSERT INTO items (section_id, ..., sort_order) VALUES (?, ..., maxOrder+1)
ItemsAfterCreate(its, sectionID) ==
    its \cup {[id |-> NewId(its, ItemIds),
               section_id |-> sectionID,
               completed |-> FALSE,
               sort_order |-> MaxSortOrder(ItemsOf(its, sectionID)) + 1]}

CreateItem(sectionID) ==
    /\ Running("items")
    /\ Exists(sections, sectionID)
    /\ Cardinality(items) < MaxItems
    /\ MaxSortOrder(ItemsOf(items, sectionID)) + 1 <= MaxOrder
    /\ items' = ItemsAfterCreate(items, sectionID)
    /\ UNCHANGED <<lists, sections>>
    /\ Record("CreateItem", NewId(items, ItemIds), sectionID, 0, FALSE)

\* Variant of DeleteItem whose DELETE takes the whole section of the item.
ItemsAfterDeleteOfSection(its, id) ==
    {i \in its : \A j \in its : j.id = id => i.section_id # j.section_id}

\* DELETE FROM items WHERE id = ?
ItemsAfterDelete(its, id) == {i \in its : i.id # id}

DeleteItem(id) ==
    /\ RunningIn({"items", "lifecycle"})
    /\ items' = ItemsAfterDelete(items, id)
    /\ UNCHANGED <<lists, sections>>
    /\ Record("DeleteItem", id, 0, 0, FALSE)

\* SELECT ... FROM lists WHERE is_active = TRUE LIMIT 1: the rows it may return
GetActiveList(ls) == {l \in ls : l.is_active}

\* DELETE FROM items WHERE completed = TRUE
\*   AND section_id IN (SELECT id FROM sections WHERE list_id = ?)
ItemsAfterDeleteCompleted(its, secs, listID) ==
    {i \in its : ~(i.completed /\ \E s \in secs :
                       s.id = i.section_id /\ s.list_id = listID)}

\* without an active list GetActiveList fails and nothing is deleted
DeleteCompletedItems ==
    /\ Running("lifecycle")
    /\ IF GetActiveList(lists) = {}
       THEN /\ items' = items
            /\ Record("DeleteCompletedItems", 0, 0, 0, TRUE)
       ELSE \E activeList \in GetActiveList(lists) :
            /\ items' = ItemsAfterDeleteCompleted(items, sections,
                                                  activeList.id)
            /\ Record("DeleteCompletedItems", activeList.id, 0, 0, FALSE)
    /\ UNCHANGED <<lists, sections>>

\* UPDATE items SET completed = NOT completed ... WHERE id = ?
ItemsAfterToggle(its, id) ==
    {IF i.id = id THEN [i EXCEPT !.completed = ~@] ELSE i : i \in its}

\* the UPDATE touches no row of an unknown id; GetItemByID then fails
ToggleItemCompleted(id) ==
    /\ Running("items")
    /\ items' = ItemsAfterToggle(items, id)
    /\ UNCHANGED <<lists, sections>>
    /\ Record("ToggleItemCompleted", id, 0, 0, ~Exists(items, id))

\* UPDATE items SET completed = FALSE WHERE section_id IN
\*   (SELECT id FROM sections WHERE list_id = ?)
ItemsAfterRestart(its, secs, listID) ==
    {IF \E s \in secs : s.id = i.section_id /\ s.list_id = listID
     THEN [i EXCEPT !.completed = FALSE] ELSE i : i \in its}

RestartList(listID) ==
    /\ Running("items")
    /\ items' = ItemsAfterRestart(items, sections, listID)
    /\ UNCHANGED <<lists, sections>>
    /\ Record("RestartList", listID, 0, 0, FALSE)

\* UPDATE items SET section_id = ?, sort_order = maxOrder+1 WHERE id = ?
ItemsAfterMoveToSection(its, id, newSectionID) ==
    LET maxOrder == MaxSortOrder(ItemsOf(its, newSectionID))
    IN  {IF i.id = id
         THEN [i EXCEPT !.section_id = newSectionID, !.sort_order = maxOrder + 1]
         ELSE i : i \in its}

MoveItemToSection(id, newSectionID) ==
    /\ Running("items")
    /\ Exists(sections, newSectionID)
    /\ MaxSortOrder(ItemsOf(items, newSectionID)) + 1 <= MaxOrder
    /\ items' = ItemsAfterMoveToSection(items, id, newSectionID)
    /\ UNCHANGED <<lists, sections>>
    /\ Record("MoveItemToSection", id, newSectionID, 0, ~Exists(items, id))

\* the loop of reorderItemInSection from index i (1-based here) on
RECURSIVE Renumber(_, _, _, _, _, _)
Renumber(its, otherItems, i, newOrder, id, targetPosition) ==
    IF i > Len(otherItems)
    THEN [items |-> its, newOrder |-> newOrder]
    ELSE LET here == (i - 1 = targetPosition)
             its1 == IF here THEN SetOrder(its, id, newOrder) ELSE its
             n1 == IF here THEN newOrder + 1 ELSE newOrder
         IN  Renumber(SetOrder(its1, otherItems[i], n1), otherItems,
                      i + 1, n1 + 1, id, targetPosition)

\* Variant of the clamp without its lower bound: a negative position stays.
ClampAbove(targetPosition, n) ==
    IF targetPosition > n THEN n ELSE targetPosition

Clamp(targetPosition, n) ==
    IF targetPosition < 0 THEN 0
    ELSE IF targetPosition > n THEN n ELSE targetPosition

\* otherItems: the ACTIVE items of the section other than the moved one, as
\* the store returned them
ItemsAfterReorder(its, id, targetPosition, otherItems) ==
    LET tp == Clamp(targetPosition, Len(otherItems))
        r == Renumber(its, otherItems, 1, 0, id, tp)
    IN  IF tp >= Len(otherItems)
        THEN SetOrder(r.items, id, r.newOrder)
        ELSE r.items

OtherItems(its, id) ==
    {i \in ActiveOf(its, RowOf(its, id).section_id) : i.id # id}

\* the steps of reorderItemInSection on an existing item
ReorderStep(id, targetPosition) ==
    \E otherItems \in RowsAsc(OtherItems(items, id)) :
        items' = ItemsAfterReorder(items, id, targetPosition, otherItems)

\* Variant of the target computation that takes an interior position one
\* item too early.
TargetSortOrderOneEarly(its, newSectionID, targetPosition, activeItems) ==
    IF Len(activeItems) = 0
    THEN MaxSortOrder(ItemsOf(its, newSectionID)) + 1
    ELSE IF targetPosition <= 0
    THEN RowOf(its, activeItems[1]).sort_order
    ELSE IF targetPosition >= Len(activeItems)
    THEN RowOf(its, activeItems[Len(activeItems)]).sort_order + 1
    ELSE RowOf(its, activeItems[targetPosition]).sort_order

\* activeItems: the ACTIVE items of the destination as the store returned them
TargetSortOrder(its, newSectionID, targetPosition, activeItems) ==
    IF Len(activeItems) = 0
    THEN MaxSortOrder(ItemsOf(its, newSectionID)) + 1
    ELSE IF targetPosition <= 0
    THEN RowOf(its, activeItems[1]).sort_order
    ELSE IF targetPosition >= Len(activeItems)
    THEN RowOf(its, activeItems[Len(activeItems)]).sort_order + 1
    ELSE RowOf(its, activeItems[targetPosition + 1]).sort_order

\* Variant of the shift with a strict comparison: the item at the target
\* sort_order stays where it is.
ShiftUpAbove(its, sectionID, targetSortOrder) ==
    {IF i.section_id = sectionID /\ i.sort_order > targetSortOrder
     THEN [i EXCEPT !.sort_order = @ + 1] ELSE i : i \in its}

\* Variant of the shift without the section filter: it reaches every section.
ShiftUpAnySection(its, sectionID, targetSortOrder) ==
    {IF i.sort_order >= targetSortOrder
     THEN [i EXCEPT !.sort_order = @ + 1] ELSE i : i \in its}

\* UPDATE items SET sort_order = sort_order + 1
\*   WHERE section_id = ? AND sort_order >= ?
ShiftUp(its, sectionID, targetSortOrder) ==
    {IF i.section_id = sectionID /\ i.sort_order >= targetSortOrder
     THEN [i EXCEPT !.sort_order = @ + 1] ELSE i : i \in its}

\* UPDATE items SET section_id = ?, sort_order = ? WHERE id = ?
Relocate(its, id, newSectionID, targetSortOrder) ==
    {IF i.id = id
     THEN [i EXCEPT !.section_id = newSectionID, !.sort_order = targetSortOrder]
     ELSE i : i \in its}

ItemsAfterMoveAtPosition(its, id, newSectionID, targetPosition, activeItems) ==
    LET targetSortOrder ==
            TargetSortOrder(its, newSectionID, targetPosition, activeItems)
    IN  Relocate(ShiftUp(its, newSectionID, targetSortOrder),
                 id, newSectionID, targetSortOrder)

reorderItemInSection(id, targetPosition) ==
    /\ Running("items")
    /\ IF Exists(items, id)
       THEN /\ ReorderStep(id, targetPosition)
            /\ Record("reorderItemInSection", id,
                      RowOf(items, id).section_id, targetPosition, FALSE)
       ELSE /\ items' = items
            /\ Record("reorderItemInSection", id, 0, targetPosition, TRUE)
    /\ UNCHANGED <<lists, sections>>

\* Variant of MoveItemToSectionAtPosition without the hand-over to
\* reorderItemInSection: a move inside the section shifts and inserts too.
MoveItemToSectionAtPositionAlwaysShift(id, newSectionID, targetPosition) ==
    /\ Running("items")
    /\ Exists(sections, newSectionID)
    /\ IF ~Exists(items, id)
       THEN /\ items' = items
            /\ Record("MoveItemToSectionAtPosition", id, newSectionID,
                      targetPosition, TRUE)
       ELSE /\ \E activeItems \in RowsAsc(ActiveOf(items, newSectionID)) :
                 items' = ItemsAfterMoveAtPosition(items, id, newSectionID,
                                                   targetPosition, activeItems)
            /\ \A i \in items' : i.sort_order <= MaxOrder
            /\ Record("MoveItemToSectionAtPosition", id, newSectionID,
                      targetPosition, FALSE)
    /\ UNCHANGED <<lists, sections>>

MoveItemToSectionAtPosition(id, newSectionID, targetPosition) ==
    /\ Running("items")
    /\ Exists(sections, newSectionID)
    /\ IF ~Exists(items, id)
       THEN /\ items' = items
            /\ Record("MoveItemToSectionAtPosition", id, newSectionID,
                      targetPosition, TRUE)
       ELSE IF RowOf(items, id).section_id = newSectionID
       THEN /\ ReorderStep(id, targetPosition)
            /\ Record("MoveItemToSectionAtPosition", id, newSectionID,
                      targetPosition, FALSE)
       ELSE /\ \E activeItems \in RowsAsc(ActiveOf(items, newSectionID)) :
                 items' = ItemsAfterMoveAtPosition(items, id, newSectionID,
                                                   targetPosition, activeItems)
            /\ \A i \in items' : i.sort_order <= MaxOrder
            /\ Record("MoveItemToSectionAtPosition", id, newSectionID,
                      targetPosition, FALSE)
    /\ UNCHANGED <<lists, sections>>

\* SELECT id, sort_order FROM items WHERE section_id = ? AND sort_order < ?
\*   ORDER BY sort_order DESC LIMIT 1   (the rows the store may return)
PrevItems(its, id) ==
    LET me == RowOf(its, id)
        below == {i \in ItemsOf(its, me.section_id) : i.sort_order < me.sort_order}
    IN  {i \in below : i.sort_order = MaxSortOrder(below)}

\* ... AND sort_order > ? ORDER BY sort_order ASC LIMIT 1
NextItems(its, id) ==
    LET me == RowOf(its, id)
        above == {i \in ItemsOf(its, me.section_id) : i.sort_order > me.sort_order}
    IN  {i \in above : \A j \in above : i.sort_order <= j.sort_order}

\* Variant of the swap that forgets its first UPDATE.
ItemsAfterSwapOneUpdate(its, id, other) ==
    SetOrder(its, id, other.sort_order)

\* swap sort_order values with the neighbour found
ItemsAfterSwap(its, id, other) ==
    SetOrder(SetOrder(its, other.id, RowOf(its, id).sort_order),
             id, other.sort_order)

MoveItemUp(id) ==
    /\ Running("items")
    /\ IF ~Exists(items, id)
       THEN /\ items' = items
            /\ Record("MoveItemUp", id, 0, 0, TRUE)
       ELSE /\ IF PrevItems(items, id) = {}
               THEN items' = items
               ELSE \E prev \in PrevItems(items, id) :
                        items' = ItemsAfterSwap(items, id, prev)
            /\ Record("MoveItemUp", id, 0, 0, FALSE)
    /\ UNCHANGED <<lists, sections>>

MoveItemDown(id) ==
    /\ Running("items")
    /\ IF ~Exists(items, id)
       THEN /\ items' = items
            /\ Record("MoveItemDown", id, 0, 0, TRUE)
       ELSE /\ IF NextItems(items, id) = {}
               THEN items' = items
               ELSE \E next \in NextItems(items, id) :
                        items' = ItemsAfterSwap(items, id, next)
            /\ Record("MoveItemDown", id, 0, 0, FALSE)
    /\ UNCHANGED <<lists, sections>>

\* MoveItemUp called on the item right after the recorded MoveItemDown of it;
\* the record becomes that of the two calls
ThenMoveItemUp ==
    /\ level = "items"
    /\ last.op = "MoveItemDown" /\ ~last.err
    /\ IF PrevItems(items, last.id) = {}
       THEN items' = items
       ELSE \E prev \in PrevItems(items, last.id) :
                items' = ItemsAfterSwap(items, last.id, prev)
    /\ last' = [last EXCEPT !.op = "MoveItemDown,MoveItemUp"]
    /\ UNCHANGED <<lists, sections, history, level, pre, procs, lock, read>>

\* MoveItemDown called on the item right after the recorded MoveItemUp of it
ThenMoveItemDown ==
    /\ level = "items"
    /\ last.op = "MoveItemUp" /\ ~last.err
    /\ IF NextItems(items, last.id) = {}
       THEN items' = items
       ELSE \E next \in NextItems(items, last.id) :
                items' = ItemsAfterSwap(items, last.id, next)
    /\ last' = [last EXCEPT !.op = "MoveItemUp,MoveItemDown"]
    /\ UNCHANGED <<lists, sections, history, level, pre, procs, lock, read>>

\* the sequences without repetition of all the rows
Arrangements(rows) ==
    {q \in [1..Cardinality(rows) -> rows] :
        \A a, b \in DOMAIN q : a # b => q[a] # q[b]}

\* Variant of the item query with ORDER BY sort_order ASC alone.
ItemsInOrderBySortOrder(its, sectionID) ==
    {q \in Arrangements(ItemsOf(its, sectionID)) :
        \A a, b \in DOMAIN q : a < b => q[a].sort_order <= q[b].sort_order}

\* SELECT ... FROM items WHERE section_id = ?
\*   ORDER BY completed ASC, sort_order ASC
\* (FALSE sorts before TRUE; rows equal in both columns come in any order)
ItemsInOrder(its, sectionID) ==
    {q \in Arrangements(ItemsOf(its, sectionID)) :
        \A a, b \in DOMAIN q :
            a < b => \/ ~q[a].completed /\ q[b].completed
                     \/ /\ q[a].completed = q[b].completed
                        /\ q[a].sort_order <= q[b].sort_order}

\* a read: the tables stay, the call and the rows it returned are recorded
GetItemsBySection(sectionID) ==
    /\ Running("items")
    /\ \E q \in ItemsInOrder(items, sectionID) :
          last' = [Call("GetItemsBySection", sectionID, 0, 0, FALSE)
                      EXCEPT !.result = q]
    /\ pre' = Store
    /\ UNCHANGED <<lists, sections, items, history, level, procs, lock, read>>

NextItemsLevel ==
    \/ ThenMoveItemUp
    \/ ThenMoveItemDown
    \/ \E sectionID \in SectionIds : CreateItem(sectionID)
    \/ \E id \in ItemIds : DeleteItem(id)
    \/ \E id \in ItemIds : ToggleItemCompleted(id)
    \/ \E listID \in ListIds : RestartList(listID)
    \/ \E id \in ItemIds, s \in SectionIds : MoveItemToSection(id, s)
    \/ \E id \in ItemIds, s \in SectionIds, p \in Positions :
            MoveItemToSectionAtPosition(id, s, p)
    \/ \E id \in ItemIds, p \in Positions : reorderItemInSection(id, p)
    \/ \E id \in ItemIds : MoveItemUp(id)
    \/ \E id \in ItemIds : MoveItemDown(id)
    \/ \E id \in SectionIds : DeleteSection(id)
    \/ \E id \in ListIds : DeleteList(id)
    \/ \E sectionID \in SectionIds : GetItemsBySection(sectionID)

-----------------------------------------------------------------------------
(* A tree read (GetSectionsByList) next to cross-section moves.  The read   *)
(* is one query for the sections and then one query per section for its     *)
(* items, none of them in a transaction; a move's transaction shows to the  *)
(* read at its Commit, all at once.                                         *)

Tree == level = "tree"

\* DB.Query("SELECT ... FROM sections WHERE list_id = ? ORDER BY sort_order ASC")
ReadSections(listID) ==
    /\ Tree
    /\ read.pc = "idle"
    /\ \E todo \in RowsAsc(SectionsOf(sections, listID)) :
          read' = [pc |-> "items", list |-> listID, todo |-> todo, tree |-> <<>>]
    /\ UNCHANGED <<lists, sections, items, history, level, pre, last, procs, lock>>

\* for rows.Next(): s.Items, err = GetItemsBySection(s.ID); append
ReadItems ==
    /\ Tree
    /\ read.pc = "items"
    /\ read.todo # <<>>
    /\ \E q \in ItemsInOrder(items, Head(read.todo)) :
          read' = [read EXCEPT !.todo = Tail(@),
                               !.tree = Append(@, [id |-> Head(read.todo),
                                                   items |-> q])]
    /\ UNCHANGED <<lists, sections, items, history, level, pre, last, procs, lock>>

\* return sections, nil
ReadReturn ==
    /\ Tree
    /\ read.pc = "items"
    /\ read.todo = <<>>
    /\ read' = [read EXCEPT !.pc = "done"]
    /\ UNCHANGED <<lists, sections, items, history, level, pre, last, procs, lock>>

\* tx.Commit() of a MoveItemToSectionAtPosition to another section, the one
\* move of the behaviour
MoveCommit(id, newSectionID, targetPosition) ==
    /\ Tree
    /\ last = NoCall
    /\ Exists(items, id)
    /\ Exists(sections, newSectionID)
    /\ RowOf(items, id).section_id # newSectionID
    /\ \E activeItems \in RowsAsc(ActiveOf(items, newSectionID)) :
          items' = ItemsAfterMoveAtPosition(items, id, newSectionID,
                                            targetPosition, activeItems)
    /\ pre' = Store
    /\ last' = Call("MoveItemToSectionAtPosition", id, newSectionID,
                    targetPosition, FALSE)
    /\ UNCHANGED <<lists, sections, history, level, procs, lock, read>>

NextTree ==
    \/ \E listID \in ListIds : ReadSections(listID)
    \/ ReadItems
    \/ ReadReturn
    \/ \E id \in ItemIds, s \in SectionIds, p \in Positions : MoveCommit(id, s, p)

-----------------------------------------------------------------------------
(* Calls during which one statement fails (the store is busy, the disk is   *)
(* full, the connection is lost).  last.failed numbers the statement that   *)
(* failed, in the order the function runs its statements.                   *)

RecordFailed(op, id, dst, pos, err, k) ==
    /\ pre' = Store
    /\ last' = [Call(op, id, dst, pos, err) EXCEPT !.failed = k]
    /\ UNCHANGED <<level, procs, lock, read>>

\* statement 1, the MAX query, fails: Scan's error is dropped and maxOrder
\* keeps its zero value; statement 2, the INSERT, fails: return nil, err
CreateListFailing(k) ==
    /\ Running("faults")
    /\ Cardinality(lists) < MaxLists
    /\ IF k = 1
       THEN /\ lists' = lists \cup {[id |-> NewId(lists, ListIds),
                                     sort_order |-> 0 + 1,
                                     is_active |-> FALSE]}
            /\ RecordFailed("CreateList", NewId(lists, ListIds), 0, 0, FALSE, k)
       ELSE /\ lists' = lists
            /\ RecordFailed("CreateList", 0, 0, 0, TRUE, k)
    /\ UNCHANGED <<sections, items, history>>

CreateSectionForListFailing(listID, k) ==
    /\ Running("faults")
    /\ Exists(lists, listID)
    /\ Cardinality(sections) < MaxSections
    /\ IF k = 1
       THEN /\ sections' = sections \cup {[id |-> NewId(sections, SectionIds),
                                           list_id |-> listID,
                                           sort_order |-> 0 + 1]}
            /\ RecordFailed("CreateSectionForList",
                            NewId(sections, SectionIds), listID, 0, FALSE, k)
       ELSE /\ sections' = sections
            /\ RecordFailed("CreateSectionForList", 0, listID, 0, TRUE, k)
    /\ UNCHANGED <<lists, items, history>>

CreateItemFailing(sectionID, k) ==
    /\ Running("faults")
    /\ Exists(sections, sectionID)
    /\ Cardinality(items) < MaxItems
    /\ IF k = 1
       THEN /\ items' = items \cup {[id |-> NewId(items, ItemIds),
                                     section_id |-> sectionID,
                                     completed |-> FALSE,
                                     sort_order |-> 0 + 1]}
            /\ RecordFailed("CreateItem", NewId(items, ItemIds), sectionID, 0,
                            FALSE, k)
       ELSE /\ items' = items
            /\ RecordFailed("CreateItem", 0, sectionID, 0, TRUE, k)
    /\ UNCHANGED <<lists, sections, history>>

\* statement 1, the UPDATE of items, fails: return err; statement 2, the
\* UPDATE of the list's updated_at, fails: its error is dropped, return nil
RestartListFailing(listID, k) ==
    /\ Running("faults")
    /\ IF k = 1
       THEN /\ items' = items
            /\ RecordFailed("RestartList", listID, 0, 0, TRUE, k)
       ELSE /\ items' = ItemsAfterRestart(items, sections, listID)
            /\ RecordFailed("RestartList", listID, 0, 0, FALSE, k)
    /\ UNCHANGED <<lists, sections, history>>

\* the upsert fails: tx.Exec's error is dropped and nothing is returned
SaveItemHistoryTxFailing(name, sectionID) ==
    /\ Running("faults")
    /\ RecordFailed("SaveItemHistoryTx", 0, sectionID, 0, FALSE, 1)
    /\ UNCHANGED <<lists, sections, items, history>>

\* the functions that run in one transaction: tx, err := DB.Begin();
\* defer tx.Rollback(); every statement's error is returned
TxOps == {"SetActiveList", "MoveListUp", "MoveListDown", "MoveSectionUp",
          "MoveSectionDown", "MoveItemUp", "MoveItemDown",
          "reorderItemInSection", "MoveItemToSectionAtPosition"}

\* the call gets past its first statement and its early returns, to its
\* writes and its Commit
ReachesCommit(op, id) ==
    CASE op = "SetActiveList" -> TRUE
      [] op = "MoveListUp" ->
            Exists(lists, id) /\ RowOf(lists, id).sort_order # 0
      [] op = "MoveListDown" ->
            Exists(lists, id) /\ RowOf(lists, id).sort_order < MaxSortOrder(lists)
      [] op = "MoveSectionUp" ->
            Exists(sections, id) /\ RowOf(sections, id).sort_order # 0
      [] op = "MoveSectionDown" ->
            /\ Exists(sections, id)
            /\ RowOf(sections, id).sort_order <
                  MaxSortOrder(SectionsOf(sections, RowOf(sections, id).list_id))
      [] op = "MoveItemUp" -> Exists(items, id) /\ PrevItems(items, id) # {}
      [] op = "MoveItemDown" -> Exists(items, id) /\ NextItems(items, id) # {}
      [] OTHER -> Exists(items, id)

\* statement k of a transaction fails (k = 1: its first statement; k = 2: a
\* later one or the Commit): return err, and the deferred Rollback undoes
\* what the transaction wrote
RolledBack(op, id, k) ==
    /\ Running("faults")
    /\ op \in TxOps
    /\ k = 2 => ReachesCommit(op, id)
    /\ RecordFailed(op, id, 0, 0, TRUE, k)
    /\ UNCHANGED <<lists, sections, items, history>>

\* return GetItemByID(id) fails after tx.Commit() succeeded (statement 3 in
\* the numbering of RolledBack): the reorder is committed, the call returns
\* the error
ReadBackFailing(id, targetPosition) ==
    /\ Running("faults")
    /\ Exists(items, id)
    /\ ReorderStep(id, targetPosition)
    /\ RecordFailed("reorderItemInSection", id, RowOf(items, id).section_id,
                    targetPosition, TRUE, 3)
    /\ UNCHANGED <<lists, sections, history>>

NextFaults ==
    \/ \E k \in 1..2 : CreateListFailing(k)
    \/ \E listID \in ListIds, k \in 1..2 : CreateSectionForListFailing(listID, k)
    \/ \E sectionID \in SectionIds, k \in 1..2 : CreateItemFailing(sectionID, k)
    \/ \E listID \in ListIds, k \in 1..2 : RestartListFailing(listID, k)
    \/ \E name \in Names, s \in SectionIds : SaveItemHistoryTxFailing(name, s)
    \/ \E op \in TxOps, id \in ListIds \cup SectionIds \cup ItemIds, k \in 1..2 :
            RolledBack(op, id, k)
    \/ \E id \in ItemIds, p \in Positions : ReadBackFailing(id, p)

-----------------------------------------------------------------------------
(* Item history *)

\* COLLATE NOCASE compares after folding the 26 upper-case letters of ASCII,
\* and no other letter, to lower case
NoCaseChar(c) ==
    CASE c = "M" -> "m"
      [] c = "I" -> "i"
      [] OTHER -> c

NoCase(name) == [k \in DOMAIN name |-> NoCaseChar(name[k])]

\* the row the INSERT conflicts with: ON CONFLICT(name COLLATE NOCASE)
Conflicts(hs, name) == {h \in hs : NoCase(h.name) = NoCase(name)}

\* INSERT INTO item_history (name, last_section_id, usage_count, ...)
\*   VALUES (?, ?, 1, ...)
\*   ON CONFLICT(name COLLATE NOCASE) DO UPDATE SET
\*     last_section_id = excluded.last_section_id, usage_count = usage_count + 1
HistoryAfterSave(hs, name, sectionID) ==
    IF Conflicts(hs, name) = {}
    THEN hs \cup {[id |-> NewId(hs, HistoryIds), name |-> name,
                   last_section_id |-> sectionID, usage_count |-> 1]}
    ELSE {IF h \in Conflicts(hs, name)
          THEN [h EXCEPT !.last_section_id = sectionID, !.usage_count = @ + 1]
          ELSE h : h \in hs}

\* the model's room for the row the statement writes
HistoryRoom(hs, name) ==
    IF Conflicts(hs, name) = {} THEN Cardinality(hs) < MaxHistory
    ELSE \A h \in Conflicts(hs, name) : h.usage_count < MaxUsage

SaveItemHistory(name, sectionID) ==
    /\ RunningIn({"history", "lifecycle"})
    /\ HistoryRoom(history, name)
    /\ history' = HistoryAfterSave(history, name, sectionID)
    /\ UNCHANGED <<lists, sections, items>>
    /\ RecordCall([Call("SaveItemHistory", 0, sectionID, 0, FALSE)
                      EXCEPT !.result = name])

\* the same upsert inside the caller's transaction; it returns nothing
SaveItemHistoryTx(name, sectionID) ==
    /\ Running("history")
    /\ HistoryRoom(history, name)
    /\ history' = HistoryAfterSave(history, name, sectionID)
    /\ UNCHANGED <<lists, sections, items>>
    /\ RecordCall([Call("SaveItemHistoryTx", 0, sectionID, 0, FALSE)
                      EXCEPT !.result = name])

\* DELETE FROM item_history WHERE id = ?;  no row affected: an error
DeleteItemHistory(id) ==
    /\ RunningIn({"history", "lifecycle"})
    /\ history' = {h \in history : h.id # id}
    /\ UNCHANGED <<lists, sections, items>>
    /\ RecordCall(Call("DeleteItemHistory", id, 0, 0, ~Exists(history, id)))

\* DELETE FROM item_history WHERE id IN (ids);  no id: nothing is run
DeleteItemHistoryBatch(ids) ==
    /\ Running("lifecycle")
    /\ history' = IF ids = {} THEN history
                  ELSE {h \in history : h.id \notin ids}
    /\ UNCHANGED <<lists, sections, items>>
    /\ RecordCall(Call("DeleteItemHistoryBatch", 0, 0, 0, FALSE))

\* SaveItemHistory called by p while others call it too.  The call is one
\* statement run by DB.Exec: the store runs it whole, after or before the
\* statement of any other caller.  procs[p] keeps what p saved.
SaveItemHistoryBy(p, name, sectionID) ==
    /\ level = "saving"
    /\ procs[p].pc = "idle"
    /\ Conflicts(history, name) = {} => Cardinality(history) < MaxHistory
    /\ history' = HistoryAfterSave(history, name, sectionID)
    /\ procs' = [procs EXCEPT ![p] = [pc |-> "saved", id |-> sectionID,
                                      view |-> {name}, maxOrder |-> 0]]
    /\ UNCHANGED <<lists, sections, items, level, pre, last, lock, read>>

NextSaving ==
    \E p \in Procs, name \in Names, s \in {1, 2} : SaveItemHistoryBy(p, name, s)

\* The saves with the clock.  At this level a row of item_history carries
\* last_used_at, and now is what strftime('%s', 'now') gives the statement:
\* a time not before any time the table holds.
Times == 1..MaxTime

Clock(hs, now) == \A h \in hs : h.last_used_at <= now

\* the value the declaration of item_history gives last_used_at in a row
\* inserted without it: the time of the insert
DefaultLastUsedAt(now) == now

\* INSERT INTO item_history (name, last_section_id, usage_count, last_used_at)
\*   VALUES (?, ?, 1, strftime('%s', 'now'))
\*   ON CONFLICT(name COLLATE NOCASE) DO UPDATE SET
\*     last_section_id = excluded.last_section_id,
\*     usage_count = usage_count + 1, last_used_at = strftime('%s', 'now')
HistoryAfterSaveAt(hs, name, sectionID, now) ==
    IF Conflicts(hs, name) = {}
    THEN hs \cup {[id |-> NewId(hs, HistoryIds), name |-> name,
                   last_section_id |-> sectionID, usage_count |-> 1,
                   last_used_at |-> now]}
    ELSE {IF h \in Conflicts(hs, name)
          THEN [h EXCEPT !.last_section_id = sectionID, !.usage_count = @ + 1,
                         !.last_used_at = now]
          ELSE h : h \in hs}

\* INSERT INTO item_history (name, last_section_id, usage_count)
\*   VALUES (?, ?, 1)
\*   ON CONFLICT(name) DO UPDATE SET
\*     usage_count = usage_count + 1,
\*     last_section_id = excluded.last_section_id
HistoryAfterSaveTx(hs, name, sectionID, now) ==
    IF Conflicts(hs, name) = {}
    THEN hs \cup {[id |-> NewId(hs, HistoryIds), name |-> name,
                   last_section_id |-> sectionID, usage_count |-> 1,
                   last_used_at |-> DefaultLastUsedAt(now)]}
    ELSE {IF h \in Conflicts(hs, name)
          THEN [h EXCEPT !.last_section_id = sectionID, !.usage_count = @ + 1]
          ELSE h : h \in hs}

\* a save at time now by one of the three statements; the call is recorded
\* with the name, the section and the time
SavedAt(op, after, name, sectionID, now) ==
    /\ Running("recency")
    /\ Clock(history, now)
    /\ HistoryRoom(history, name)
    /\ history' = after
    /\ UNCHANGED <<lists, sections, items>>
    /\ RecordCall([Call(op, 0, sectionID, now, FALSE) EXCEPT !.result = name])

SaveItemHistoryAt(name, sectionID, now) ==
    SavedAt("SaveItemHistory",
            HistoryAfterSaveAt(history, name, sectionID, now),
            name, sectionID, now)

\* the statement ApplyTemplateToList runs for each item it inserts
ApplyTemplateSaveAt(name, sectionID, now) ==
    SavedAt("ApplyTemplateToList",
            HistoryAfterSaveAt(history, name, sectionID, now),
            name, sectionID, now)

SaveItemHistoryTxAt(name, sectionID, now) ==
    SavedAt("SaveItemHistoryTx",
            HistoryAfterSaveTx(history, name, sectionID, now),
            name, sectionID, now)

NextRecency ==
    \E name \in {<<"m", "i">>, <<"M", "I">>, <<"e'">>}, s \in {1, 2},
       now \in Times :
        \/ SaveItemHistoryAt(name, s, now)
        \/ ApplyTemplateSaveAt(name, s, now)
        \/ SaveItemHistoryTxAt(name, s, now)

\* the deletions of lists, sections and items beside the history operations
NextLifecycle ==
    \/ \E id \in ListIds : DeleteList(id)
    \/ \E id \in SectionIds : DeleteSection(id)
    \/ \E ids \in SUBSET SectionIds : DeleteSections(ids)
    \/ \E id \in ItemIds : DeleteItem(id)
    \/ DeleteCompletedItems
    \/ \E name \in {<<"m", "i">>, <<"M", "I">>} : SaveItemHistory(name, 1)
    \/ \E id \in HistoryIds : DeleteItemHistory(id)
    \/ \E ids \in SUBSET HistoryIds : DeleteItemHistoryBatch(ids)

NextHistory ==
    \/ \E name \in Names, s \in SectionIds : SaveItemHistory(name, s)
    \/ \E name \in Names, s \in SectionIds : SaveItemHistoryTx(name, s)
    \/ \E id \in HistoryIds : DeleteItemHistory(id)

-----------------------------------------------------------------------------
(* Suggestions.  A string is the sequence of its bytes: an ASCII letter is   *)
(* one byte, the letters e-acute and e-grave are the two bytes C3 A9 and    *)
(* C3 A8 of their UTF-8 encoding.                                           *)

UpperCase ==
    <<"A", "B", "C", "D", "E", "F", "G", "H", "I", "J", "K", "L", "M",
      "N", "O", "P", "Q", "R", "S", "T", "U", "V", "W", "X", "Y", "Z">>

LowerCase ==
    <<"a", "b", "c", "d", "e", "f", "g", "h", "i", "j", "k", "l", "m",
      "n", "o", "p", "q", "r", "s", "t", "u", "v", "w", "x", "y", "z">>

\* strings.ToLower
ToLower(str) ==
    [k \in DOMAIN str |->
        IF \E u \in DOMAIN UpperCase : UpperCase[u] = str[k]
        THEN LowerCase[CHOOSE u \in DOMAIN UpperCase : UpperCase[u] = str[k]]
        ELSE str[k]]

\* strings.HasPrefix
HasPrefix(str, prefix) ==
    /\ Len(prefix) <= Len(str)
    /\ SubSeq(str, 1, Len(prefix)) = prefix

\* strings.Contains
Contains(str, substr) ==
    \E k \in 0..(Len(str) - Len(substr)) :
        SubSeq(str, k + 1, k + Len(substr)) = substr

\* strings.Fields: the maximal runs of bytes that are not white space
RECURSIVE Fields(_)
Fields(str) ==
    IF str = <<>> THEN <<>>
    ELSE IF str[1] = " " THEN Fields(Tail(str))
    ELSE LET spaces == {k \in DOMAIN str : str[k] = " "}
             end == IF spaces = {} THEN Len(str) + 1
                    ELSE CHOOSE k \in spaces : \A j \in spaces : k <= j
         IN  <<SubSeq(str, 1, end - 1)>> \o Fields(SubSeq(str, end, Len(str)))

Min3(a, b, c) ==
    IF a <= b /\ a <= c THEN a ELSE IF b <= c THEN b ELSE c

\* the inner loop: row i of the matrix, cell by cell; row holds the cells
\* 0..Len(row)-1 already computed and above is row i-1
RECURSIVE MatrixRow(_, _, _, _, _)
MatrixRow(s1, s2, above, row, i) ==
    IF Len(row) = Len(s2) + 1 THEN row
    ELSE LET j == Len(row)
             cost == IF s1[i] = s2[j] THEN 0 ELSE 1
         IN  MatrixRow(s1, s2, above,
                       Append(row, Min3(above[j + 1] + 1,     \* deletion
                                        row[j] + 1,           \* insertion
                                        above[j] + cost)),    \* substitution
                       i)

\* the outer loop: the rows from i on, above being row i-1; the result is
\* matrix[len(s1)][len(s2)]
RECURSIVE MatrixFrom(_, _, _, _)
MatrixFrom(s1, s2, above, i) ==
    IF i > Len(s1) THEN above[Len(s2) + 1]
    ELSE MatrixFrom(s1, s2, MatrixRow(s1, s2, above, <<i>>, i), i + 1)

levenshteinDistance(a, b) ==
    LET s1 == ToLower(a)
        s2 == ToLower(b)
    IN  IF Len(s1) = 0 THEN Len(s2)
        ELSE IF Len(s2) = 0 THEN Len(s1)
        ELSE MatrixFrom(s1, s2, [j \in 1..(Len(s2) + 1) |-> j - 1], 1)

\* the letters of the strings measured: a, A, b and e-acute
Letters == {<<"a">>, <<"A">>, <<"b">>, <<"C3", "A9">>}

\* the strings of at most n letters
RECURSIVE Strings(_)
Strings(n) ==
    IF n = 0 THEN {<<>>}
    ELSE Strings(n - 1) \cup {c \o w : c \in Letters, w \in Strings(n - 1)}

\* a call of levenshteinDistance, recorded with its arguments and its result
Distance(a, b) ==
    /\ Running("distance")
    /\ pre' = Store
    /\ last' = [Call("levenshteinDistance", 0, 0, levenshteinDistance(a, b),
                     FALSE) EXCEPT !.result = <<a, b>>]
    /\ UNCHANGED <<lists, sections, items, history, level, procs, lock, read>>

NextDistance == \E a, b \in Strings(MaxLen) : Distance(a, b)

\* the loop over the words of the name: the first word near enough decides
RECURSIVE WordScore(_, _, _)
WordScore(words, queryLower, maxDistance) ==
    IF words = <<>> THEN 0
    ELSE LET wordDist == levenshteinDistance(Head(words), queryLower)
         IN  IF wordDist <= maxDistance THEN 80 - wordDist * 15
             ELSE WordScore(Tail(words), queryLower, maxDistance)

\* Variant of scoreSuggestion without the fuzzy match.
scoreSuggestionNoFuzzy(name, query) ==
    LET nameLower == ToLower(name)
        queryLower == ToLower(query)
    IN  IF nameLower = queryLower THEN 1000
        ELSE IF HasPrefix(nameLower, queryLower) THEN 500
        ELSE IF Contains(nameLower, queryLower) THEN 200
        ELSE 0

scoreSuggestion(name, query) ==
    LET nameLower == ToLower(name)
        queryLower == ToLower(query)
        distance == levenshteinDistance(nameLower, queryLower)
        maxDistance == Len(query) \div 2
    IN  IF nameLower = queryLower THEN 1000
        ELSE IF HasPrefix(nameLower, queryLower) THEN 500
        ELSE IF Contains(nameLower, queryLower) THEN 200
        ELSE IF Len(query) >= 3
        THEN IF distance <= maxDistance THEN 100 - distance * 20
             ELSE WordScore(Fields(nameLower), queryLower, maxDistance)
        ELSE 0

\* the limit of GetItemSuggestions when the caller's is not positive
DefaultLimit == 10

\* the limit of GetAllItemSuggestions when the caller's is not positive
BulkLimit == 100

\* LIMIT 200: the rows GetItemSuggestions scores
PoolLimit == 200

\* the rows ORDER BY usage_count DESC, last_used_at DESC may return first
FirstRows(hs) ==
    {h \in hs : \A g \in hs :
        \/ g.usage_count < h.usage_count
        \/ g.usage_count = h.usage_count /\ g.last_used_at <= h.last_used_at}

\* SELECT ... FROM item_history h LEFT JOIN sections s ...
\*   ORDER BY h.usage_count DESC, h.last_used_at DESC LIMIT n
\* every sequence of rows the query may return, tied rows in any order
RECURSIVE HistoryRows(_, _)
HistoryRows(hs, n) ==
    IF hs = {} \/ n = 0 THEN {<<>>}
    ELSE UNION {{<<h>> \o rest : rest \in HistoryRows(hs \ {h}, n - 1)}
                : h \in FirstRows(hs)}

\* ORDER BY h.usage_count DESC, h.last_used_at DESC: g is to come before h
RowBefore(g, h) ==
    \/ g.usage_count > h.usage_count
    \/ g.usage_count = h.usage_count /\ g.last_used_at > h.last_used_at

\* Variant of the query without its LIMIT: every row of the history.
HistoryPoolsUnlimited(hs, n) == {hs}

\* the sets of rows the same query may return with LIMIT n: the rows that
\* fewer than n others may precede, and of the rows tied at the cut as many
\* as fill the n
HistoryPools(hs, n) ==
    LET sure == {h \in hs :
                    Cardinality({g \in hs \ {h} : ~RowBefore(h, g)}) < n}
        tied == {h \in hs \ sure :
                    Cardinality({g \in hs : RowBefore(g, h)}) < n}
        size == IF Cardinality(hs) < n THEN Cardinality(hs) ELSE n
    IN  {sure \cup x : x \in {y \in SUBSET tied :
                                  Cardinality(sure \cup y) = size}}

\* rows.Scan: the columns of an ItemSuggestion
ItemSuggestion(h) ==
    [name |-> h.name, last_section_id |-> h.last_section_id,
     usage_count |-> h.usage_count]

\* Variant of the loop that tests the raised score: a row that does not match
\* is kept when its usage count reaches ten.
ScoredAfterBoost(rows, query) ==
    {[suggestion |-> ItemSuggestion(h),
      score |-> scoreSuggestion(h.name, query) + h.usage_count \div 10]
     : h \in {g \in rows : scoreSuggestion(g.name, query)
                               + g.usage_count \div 10 > 0}}

\* the loop over the rows, here the set of them since the sort that follows
\* forgets their order: a row of positive score is kept with its score
\* raised by a tenth of its usage count
Scored(rows, query) ==
    {[suggestion |-> ItemSuggestion(h),
      score |-> scoreSuggestion(h.name, query) + h.usage_count \div 10]
     : h \in {g \in rows : scoreSuggestion(g.name, query) > 0}}

\* Variant of the comparison of sort.Slice that puts the less used first.
ComesFirstLeastUsed(a, b) ==
    IF a.score # b.score THEN a.score > b.score
    ELSE a.suggestion.usage_count < b.suggestion.usage_count

\* the comparison of sort.Slice: a is to come before b
ComesFirst(a, b) ==
    IF a.score # b.score THEN a.score > b.score
    ELSE a.suggestion.usage_count > b.suggestion.usage_count

\* sort.Slice is not stable: every sequence of scored in which no element
\* is to come before an earlier one
RECURSIVE Sorted(_)
Sorted(scored) ==
    IF scored = {} THEN {<<>>}
    ELSE UNION {{<<a>> \o rest : rest \in Sorted(scored \ {a})}
                : a \in {x \in scored : \A y \in scored : ~ComesFirst(y, x)}}

\* the first limit elements of a sequence
Top(seq, limit) ==
    SubSeq(seq, 1, IF Len(seq) < limit THEN Len(seq) ELSE limit)

\* what GetItemSuggestions(query, limit) may return on history hs
ItemSuggestions(hs, query, limit) ==
    LET n == IF limit <= 0 THEN DefaultLimit ELSE limit
    IN  {[k \in DOMAIN Top(sorted, n) |-> sorted[k].suggestion]
         : sorted \in UNION {Sorted(Scored(pool, query))
                             : pool \in HistoryPools(hs, PoolLimit)}}

\* what GetAllItemSuggestions(limit) may return on history hs
AllItemSuggestions(hs, limit) ==
    LET n == IF limit <= 0 THEN BulkLimit ELSE limit
    IN  {[k \in DOMAIN rows |-> ItemSuggestion(rows[k])]
         : rows \in HistoryRows(hs, n)}

\* a read of the history: the call is recorded with the query, the rows it
\* returned and the limit parameter of the request
Returned(op, query, limit, param, rows) ==
    /\ pre' = Store
    /\ last' = [Call(op, 0, 0, limit, FALSE)
                   EXCEPT !.result = <<query, rows, param>>]
    /\ UNCHANGED <<lists, sections, items, history, level, procs, lock, read>>

GetItemSuggestions(query, limit) ==
    /\ RunningIn({"suggest", "pool"})
    /\ \E rows \in ItemSuggestions(history, query, limit) :
          Returned("GetItemSuggestions", query, limit, <<>>, rows)

GetAllItemSuggestions(limit) ==
    /\ Running("suggest")
    /\ \E rows \in AllItemSuggestions(history, limit) :
          Returned("GetAllItemSuggestions", <<>>, limit, <<>>, rows)

Digits == <<"0", "1", "2", "3", "4", "5", "6", "7", "8", "9">>

IsDigit(c) == \E d \in DOMAIN Digits : Digits[d] = c

\* the number a sequence of digits writes
RECURSIVE Decimal(_)
Decimal(str) ==
    IF str = <<>> THEN 0
    ELSE Decimal(SubSeq(str, 1, Len(str) - 1)) * 10
           + (CHOOSE d \in DOMAIN Digits : Digits[d] = str[Len(str)]) - 1

Unsigned(str) == IF str # <<>> /\ str[1] \in {"+", "-"} THEN Tail(str) ELSE str

\* strconv.Atoi returns no error: an optional sign and one digit or more
IsNumber(str) ==
    /\ Unsigned(str) # <<>>
    /\ \A k \in DOMAIN Unsigned(str) : IsDigit(Unsigned(str)[k])

Atoi(str) ==
    IF str[1] = "-" THEN 0 - Decimal(Unsigned(str)) ELSE Decimal(Unsigned(str))

\* the handler of a request for suggestions; q and param are the request's
\* parameters q and limit, empty when the request has none
GetSuggestions(q, param) ==
    LET limitStr == IF param = <<>> THEN <<"1", "0">> ELSE param
        limit == IF IsNumber(limitStr) THEN Atoi(limitStr) ELSE 10
    IN  /\ Running("suggest")
        /\ \E rows \in IF q = <<>> THEN AllItemSuggestions(history, limit)
                       ELSE ItemSuggestions(history, q, limit) :
              Returned("GetSuggestions", q, limit, param, rows)

TenLetters == <<"a", "b", "c", "d", "e", "f", "g", "h", "i", "j">>

\* the queries asked
Queries ==
    {<<"m", "i", "l", "k">>, <<"M", "I", "L", "K">>, <<"m", "i">>, <<"m">>,
     TenLetters, <<"C3", "A9", "a">>}

\* the limits asked of the db functions
Limits == {-1, 0, 1, 2, 3, 20}

\* the limit parameters of a request
LimitParams == {<<>>, <<"0">>, <<"2">>, <<"-", "1">>, <<"2", "0">>, <<"x">>}

\* the queries asked of a long history
PoolQueries == {<<"m", "i", "l", "k">>, <<"m", "i">>}

NextPool ==
    \E query \in PoolQueries, limit \in Limits :
        GetItemSuggestions(query, limit)

NextSuggest ==
    \/ \E query \in Queries, limit \in Limits :
          GetItemSuggestions(query, limit)
    \/ \E limit \in Limits : GetAllItemSuggestions(limit)
    \/ \E q \in Queries \cup {<<>>}, param \in LimitParams :
          GetSuggestions(q, param)

-----------------------------------------------------------------------------
(* Concurrent callers of SetActiveList and CreateList.  The tables are what *)
(* is committed, which is what any reader sees.  A transaction (DB.Begin)   *)
(* takes the store's write lock at its first write and works on its own     *)
(* view until Commit publishes it; a statement outside a transaction        *)
(* (DB.Exec) commits by itself.  A write that finds the lock held waits or  *)
(* fails with a busy error.                                                 *)

Idle == [pc |-> "idle", id |-> 0, view |-> {}, maxOrder |-> 0]

Concurrent == level = "concurrent"

\* the rows a statement of p's transaction works on
TxRows(p) == IF lock = p THEN procs[p].view ELSE lists

\* DB.Exec: the statement's result is committed at once
DBExec(p, rows, pc) ==
    /\ lock = 0
    /\ lists' = rows
    /\ lock' = lock
    /\ procs' = [procs EXCEPT ![p].pc = pc]

\* Variant of tx.Exec outside any transaction: the statement commits by itself,
\* so the two UPDATEs of different callers can interleave.
TxExecAutocommit(p, rows, pc) ==
    /\ lock = 0
    /\ lock' = lock
    /\ lists' = rows
    /\ procs' = [procs EXCEPT ![p].pc = pc, ![p].view = rows]

\* tx.Exec: the statement's result stays in the transaction's view
TxExec(p, rows, pc) ==
    /\ lock \in {0, p}
    /\ lock' = p
    /\ lists' = lists
    /\ procs' = [procs EXCEPT ![p].pc = pc, ![p].view = rows]

\* tx.Commit, and the call returns
TxCommit(p) ==
    /\ lists' = TxRows(p)
    /\ lock' = IF lock = p THEN 0 ELSE lock
    /\ procs' = [procs EXCEPT ![p] = Idle]

\* tx, err := DB.Begin()
SetActiveBegin(p, id) ==
    /\ Concurrent
    /\ procs[p].pc = "idle"
    /\ procs' = [procs EXCEPT ![p].pc = "begun", ![p].id = id]
    /\ UNCHANGED <<lists, lock, sections, items, level, pre, last, history, read>>

\* tx.Exec("UPDATE lists SET is_active = FALSE")
SetActiveDeactivate(p) ==
    /\ Concurrent
    /\ procs[p].pc = "begun"
    /\ TxExec(p, Deactivated(TxRows(p)), "deactivated")
    /\ UNCHANGED <<sections, items, level, pre, last, history, read>>

\* tx.Exec("UPDATE lists SET is_active = TRUE ... WHERE id = ?", id)
SetActiveActivate(p) ==
    /\ Concurrent
    /\ procs[p].pc = "deactivated"
    /\ TxExec(p, Activated(TxRows(p), procs[p].id), "activated")
    /\ UNCHANGED <<sections, items, level, pre, last, history, read>>

\* return tx.Commit()
SetActiveCommit(p) ==
    /\ Concurrent
    /\ procs[p].pc = "activated"
    /\ TxCommit(p)
    /\ UNCHANGED <<sections, items, level, pre, last, history, read>>

\* the first UPDATE fails (store busy): return err, the deferred Rollback runs
SetActiveBusy(p) ==
    /\ Concurrent
    /\ procs[p].pc = "begun"
    /\ lock \notin {0, p}
    /\ procs' = [procs EXCEPT ![p] = Idle]
    /\ UNCHANGED <<lists, lock, sections, items, level, pre, last, history, read>>

\* DB.QueryRow("SELECT COALESCE(MAX(sort_order), -1) FROM lists").Scan(&maxOrder)
CreateListReadMax(p) ==
    /\ Concurrent
    /\ procs[p].pc = "idle"
    /\ Cardinality(lists) < MaxLists
    /\ procs' = [procs EXCEPT ![p].pc = "read",
                              ![p].maxOrder = MaxSortOrder(lists)]
    /\ UNCHANGED <<lists, lock, sections, items, level, pre, last, history, read>>

\* DB.Exec("INSERT INTO lists (..., sort_order, is_active) VALUES (..., ?, FALSE)")
CreateListInsert(p) ==
    /\ Concurrent
    /\ procs[p].pc = "read"
    /\ Cardinality(lists) < MaxLists
    /\ procs[p].maxOrder + 1 <= MaxOrder
    /\ DBExec(p, lists \cup {[id |-> NewId(lists, ListIds),
                              sort_order |-> procs[p].maxOrder + 1,
                              is_active |-> FALSE]}, "idle")
    /\ UNCHANGED <<sections, items, level, pre, last, history, read>>

\* the INSERT fails (store busy, or no room left in the model): return err
CreateListFail(p) ==
    /\ Concurrent
    /\ procs[p].pc = "read"
    /\ lock # 0 \/ Cardinality(lists) >= MaxLists
    /\ procs' = [procs EXCEPT ![p] = Idle]
    /\ UNCHANGED <<lists, lock, sections, items, level, pre, last, history, read>>

NextConcurrent ==
    \/ \E p \in Procs, id \in ListIds : SetActiveBegin(p, id)
    \/ \E p \in Procs : SetActiveDeactivate(p)
    \/ \E p \in Procs : SetActiveActivate(p)
    \/ \E p \in Procs : SetActiveCommit(p)
    \/ \E p \in Procs : SetActiveBusy(p)
    \/ \E p \in Procs : CreateListReadMax(p)
    \/ \E p \in Procs : CreateListInsert(p)
    \/ \E p \in Procs : CreateListFail(p)

-----------------------------------------------------------------------------
(* MoveItemToSectionAtPosition beside other moves.  The call reads the      *)
(* item's section in one transaction; for a destination that is not that    *)
(* section it shifts and inserts in the same transaction, for the item's    *)
(* own section it rolls back and calls reorderItemInSection, which begins a *)
(* transaction of its own.  Between the two any other call may commit.      *)

\* p has left the first transaction and is about to call reorderItemInSection
Handed(id, newSectionID, targetPosition) ==
    [pc |-> "reorder", id |-> id, section |-> newSectionID,
     position |-> targetPosition]

\* the call up to the hand-over, or the whole call to another section
MoveBegin(p, id, newSectionID, targetPosition) ==
    /\ Running("race")
    /\ procs[p].pc = "idle"
    /\ Exists(items, id)
    /\ Exists(sections, newSectionID)
    /\ IF RowOf(items, id).section_id = newSectionID
       THEN /\ p = 1
            /\ procs' = [procs EXCEPT
                            ![p] = Handed(id, newSectionID, targetPosition)]
            /\ UNCHANGED <<items, pre, last>>
       ELSE /\ \E activeItems \in RowsAsc(ActiveOf(items, newSectionID)) :
                 items' = ItemsAfterMoveAtPosition(items, id, newSectionID,
                                                   targetPosition, activeItems)
            /\ \A i \in items' : i.sort_order <= MaxOrder
            /\ \/ UNCHANGED <<pre, last>>
               \/ /\ pre' = Store
                  /\ last' = Call("MoveItemToSectionAtPosition", id,
                                  newSectionID, targetPosition, FALSE)
            /\ UNCHANGED procs
    /\ UNCHANGED <<lists, sections, history, level, lock, read>>

\* reorderItemInSection(id, targetPosition) and the return of its result
MoveReorder(p) ==
    /\ Running("race")
    /\ procs[p].pc = "reorder"
    /\ ReorderStep(procs[p].id, procs[p].position)
    /\ procs' = [procs EXCEPT ![p] = Idle]
    /\ \/ UNCHANGED <<pre, last>>
       \/ /\ pre' = Store
          /\ last' = Call("MoveItemToSectionAtPosition", procs[p].id,
                          procs[p].section, procs[p].position, FALSE)
    /\ UNCHANGED <<lists, sections, history, level, lock, read>>

NextRace ==
    \/ \E p \in Procs, id \in ItemIds, s \in SectionIds, t \in Positions :
          MoveBegin(p, id, s, t)
    \/ \E p \in Procs : MoveReorder(p)

-----------------------------------------------------------------------------
(* Specifications *)

InitLists ==
    /\ level = "lists"
    /\ lists \in {{}, {[id |-> 1, sort_order |-> 0, is_active |-> TRUE]}}
    /\ sections = {}
    /\ items = {}
    /\ pre = EmptyStore
    /\ history = {}
    /\ read = NoRead
    /\ last = NoCall
    /\ procs = [p \in Procs |-> Idle]
    /\ lock = 0

SpecLists == InitLists /\ [][NextLists]_vars

InitSections ==
    /\ level = "sections"
    /\ lists = {[id |-> 1, sort_order |-> 0, is_active |-> TRUE],
                [id |-> 2, sort_order |-> 1, is_active |-> FALSE]}
    /\ sections = {}
    /\ items = {}
    /\ pre = EmptyStore
    /\ history = {}
    /\ read = NoRead
    /\ last = NoCall
    /\ procs = [p \in Procs |-> Idle]
    /\ lock = 0

InitItems ==
    /\ level = "items"
    /\ lists = {[id |-> 1, sort_order |-> 0, is_active |-> TRUE]}
    /\ sections = {[id |-> 1, list_id |-> 1, sort_order |-> 0],
                   [id |-> 2, list_id |-> 1, sort_order |-> 1]}
    /\ items = {}
    /\ pre = EmptyStore
    /\ history = {}
    /\ read = NoRead
    /\ last = NoCall
    /\ procs = [p \in Procs |-> Idle]
    /\ lock = 0

SpecItems == InitItems /\ [][NextItemsLevel]_vars

InitConcurrent ==
    /\ level = "concurrent"
    /\ lists \in {{[id |-> 1, sort_order |-> 0, is_active |-> TRUE]},
                  {[id |-> 1, sort_order |-> 0, is_active |-> TRUE],
                   [id |-> 2, sort_order |-> 1, is_active |-> FALSE]}}
    /\ sections = {}
    /\ items = {}
    /\ pre = EmptyStore
    /\ history = {}
    /\ read = NoRead
    /\ last = NoCall
    /\ procs = [p \in Procs |-> Idle]
    /\ lock = 0

SpecConcurrent == InitConcurrent /\ [][NextConcurrent]_vars

\* one list of two sections that hold the items, each section numbered from 0
InitTree ==
    /\ level = "tree"
    /\ lists = {[id |-> 1, sort_order |-> 0, is_active |-> TRUE]}
    /\ sections = {[id |-> 1, list_id |-> 1, sort_order |-> 0],
                   [id |-> 2, list_id |-> 1, sort_order |-> 1]}
    /\ \E f \in [ItemIds -> {1, 2}] :
          items = {[id |-> i, section_id |-> f[i], completed |-> FALSE,
                    sort_order |->
                        Cardinality({j \in ItemIds : j < i /\ f[j] = f[i]})]
                   : i \in ItemIds}
    /\ pre = EmptyStore
    /\ history = {}
    /\ read = NoRead
    /\ last = NoCall
    /\ procs = [p \in Procs |-> Idle]
    /\ lock = 0

SpecTree == InitTree /\ [][NextTree]_vars

\* two lists, two sections in the first, and up to MaxItems - 1 items, each
\* in either section and completed or not, each section numbered from 0
InitFaults ==
    /\ level = "faults"
    /\ lists = {[id |-> 1, sort_order |-> 0, is_active |-> TRUE],
                [id |-> 2, sort_order |-> 1, is_active |-> FALSE]}
    /\ sections = {[id |-> 1, list_id |-> 1, sort_order |-> 0],
                   [id |-> 2, list_id |-> 1, sort_order |-> 1]}
    /\ \E n \in 0..(MaxItems - 1), f \in [ItemIds -> {1, 2}],
          c \in [ItemIds -> BOOLEAN] :
          items = {[id |-> i, section_id |-> f[i], completed |-> c[i],
                    sort_order |->
                        Cardinality({j \in ItemIds : j < i /\ f[j] = f[i]})]
                   : i \in 1..n}
    /\ pre = EmptyStore
    /\ history = {}
    /\ read = NoRead
    /\ last = NoCall
    /\ procs = [p \in Procs |-> Idle]
    /\ lock = 0

SpecFaults == InitFaults /\ [][NextFaults]_vars

\* two lists, the first active with two sections and the second with one, up
\* to MaxItems - 1 items, and one or two history entries, the first last used
\* in any section
InitLifecycle ==
    /\ level = "lifecycle"
    /\ lists = {[id |-> 1, sort_order |-> 0, is_active |-> TRUE],
                [id |-> 2, sort_order |-> 1, is_active |-> FALSE]}
    /\ sections = {[id |-> 1, list_id |-> 1, sort_order |-> 0],
                   [id |-> 2, list_id |-> 1, sort_order |-> 1],
                   [id |-> 3, list_id |-> 2, sort_order |-> 0]}
    /\ \E n \in 0..(MaxItems - 1), f \in [ItemIds -> SectionIds],
          c \in [ItemIds -> BOOLEAN] :
          items = {[id |-> i, section_id |-> f[i], completed |-> c[i],
                    sort_order |->
                        Cardinality({j \in ItemIds : j < i /\ f[j] = f[i]})]
                   : i \in 1..n}
    /\ \E s \in SectionIds, u \in 1..MaxUsage, more \in BOOLEAN :
          history = {[id |-> 1, name |-> <<"m", "i">>,
                      last_section_id |-> s, usage_count |-> u]}
                    \cup (IF more
                          THEN {[id |-> 2, name |-> <<"e'">>,
                                 last_section_id |-> 1, usage_count |-> 1]}
                          ELSE {})
    /\ pre = EmptyStore
    /\ read = NoRead
    /\ last = NoCall
    /\ procs = [p \in Procs |-> Idle]
    /\ lock = 0

SpecLifecycle == InitLifecycle /\ [][NextLifecycle]_vars

\* callers about to save, on a history that is empty or holds one entry; pre
\* keeps the tables as the callers found them
InitSaving ==
    /\ level = "saving"
    /\ lists = {}
    /\ sections = {}
    /\ items = {}
    /\ \E name \in Names, u \in 0..MaxUsage :
          history = IF u = 0 THEN {}
                    ELSE {[id |-> 1, name |-> name, last_section_id |-> 1,
                           usage_count |-> u]}
    /\ pre = [lists |-> {}, sections |-> {}, items |-> {},
              history |-> history]
    /\ read = NoRead
    /\ last = NoCall
    /\ procs = [p \in Procs |-> Idle]
    /\ lock = 0

SpecSaving == InitSaving /\ [][NextSaving]_vars

\* a row of item_history with the time of its last use, the column the
\* suggestion queries order by
Entry(id, name, usage, at) ==
    [id |-> id, name |-> name, last_section_id |-> 1, usage_count |-> usage,
     last_used_at |-> at]

\* names around the query "milk": an exact, a substring and a near match,
\* two names the query begins, a name that matches in no
\* way and a name with a word near the query
Dairy ==
    {Entry(1, <<"M", "i", "l", "k">>, 5, 3),
     Entry(2, <<"A", "l", "m", "o", "n", "d", " ", "M", "i", "l", "k">>, 20, 1),
     Entry(3, <<"S", "i", "l", "k">>, 1, 2),
     Entry(4, <<"B", "r", "e", "a", "d">>, 30, 4),
     Entry(5, <<"M", "i", "l", "k", "y">>, 5, 3),
     Entry(6, <<"M", "i", "l", "k", "s">>, 7, 3),
     Entry(7, <<"A", "l", "m", "o", "n", "d", " ", "M", "l", "i", "k">>, 12, 2)}

\* the ten letters with the last d replaced
Typo(d) == [k \in 1..10 |-> IF k > 10 - d THEN "Z" ELSE TenLetters[k]]

\* names at distance 1, 2, 4, 5 and 6 of the ten letters, two of them at
\* distance 1 with equal usage
Typos ==
    {Entry(1, Typo(1), 1, 1), Entry(2, Typo(2), 15, 2),
     Entry(3, Typo(4), 3, 3), Entry(4, Typo(5), 40, 4),
     Entry(5, Typo(6), 7, 5),
     Entry(6, [Typo(0) EXCEPT ![1] = "Z"], 1, 1)}

\* two names of the same two words, each near the query "milk", in either
\* order, and the name e-grave a
Words ==
    {Entry(1, <<"M", "l", "i", "k", " ", "M", "i", "l", "d">>, 2, 1),
     Entry(2, <<"M", "i", "l", "d", " ", "M", "l", "i", "k">>, 3, 2),
     Entry(3, <<"C3", "A8", "a">>, 1, 3)}

\* more names than either default limit of ten: m, mm, mmm, ...
Many ==
    {Entry(n, [k \in 1..n |-> "m"], n, n) : n \in 1..(DefaultLimit + 2)}

\* the n-th of the names of eight letters x and y
Filler(n) == [j \in 1..8 |-> IF (n \div 2 ^ (j - 1)) % 2 = 1 THEN "y" ELSE "x"]

\* k entries used five times each, one after the other
Fillers(k) == {Entry(n, Filler(n), 5, n) : n \in 1..k}

\* entries used less, more and as much as those: the last is used when the
\* first of those was
Extras ==
    {Entry(PoolLimit + 1, <<"M", "i", "l", "k">>, 1, PoolLimit + 1),
     Entry(PoolLimit + 2, <<"M", "i", "l", "k", "y">>, 9, PoolLimit + 2),
     Entry(PoolLimit + 3, <<"S", "i", "l", "k">>, 5, 1)}

\* a history of about PoolLimit entries
InitPool ==
    /\ level = "pool"
    /\ lists = {}
    /\ sections = {}
    /\ items = {}
    /\ \E k \in (PoolLimit - 2)..PoolLimit, x \in SUBSET Extras :
          history = Fillers(k) \cup x
    /\ pre = EmptyStore
    /\ read = NoRead
    /\ last = NoCall
    /\ procs = [p \in Procs |-> Idle]
    /\ lock = 0

SpecPool == InitPool /\ [][NextPool]_vars

\* a history as the saves may have left it
InitSuggest ==
    /\ level = "suggest"
    /\ lists = {}
    /\ sections = {}
    /\ items = {}
    /\ history \in (SUBSET Dairy) \cup (SUBSET Typos) \cup (SUBSET Words)
                    \cup {Many}
    /\ pre = EmptyStore
    /\ read = NoRead
    /\ last = NoCall
    /\ procs = [p \in Procs |-> Idle]
    /\ lock = 0

SpecSuggest == InitSuggest /\ [][NextSuggest]_vars

\* one list of two sections, the items in either section
InitRace ==
    /\ level = "race"
    /\ lists = {[id |-> 1, sort_order |-> 0, is_active |-> TRUE]}
    /\ sections = {[id |-> 1, list_id |-> 1, sort_order |-> 0],
                   [id |-> 2, list_id |-> 1, sort_order |-> 1]}
    /\ \E f \in [ItemIds -> {1, 2}] :
          items = {[id |-> i, section_id |-> f[i], completed |-> FALSE,
                    sort_order |->
                        Cardinality({j \in ItemIds : j < i /\ f[j] = f[i]})]
                   : i \in ItemIds}
    /\ pre = EmptyStore
    /\ history = {}
    /\ read = NoRead
    /\ last = NoCall
    /\ procs = [p \in Procs |-> Idle]
    /\ lock = 0

SpecRace == InitRace /\ [][NextRace]_vars

\* no call of levenshteinDistance yet
InitDistance ==
    /\ level = "distance"
    /\ lists = {}
    /\ sections = {}
    /\ items = {}
    /\ history = {}
    /\ pre = EmptyStore
    /\ read = NoRead
    /\ last = NoCall
    /\ procs = [p \in Procs |-> Idle]
    /\ lock = 0

SpecDistance == InitDistance /\ [][NextDistance]_vars

\* no history entry yet, the clock about to run
InitRecency ==
    /\ level = "recency"
    /\ lists = {}
    /\ sections = {}
    /\ items = {}
    /\ history = {}
    /\ pre = EmptyStore
    /\ read = NoRead
    /\ last = NoCall
    /\ procs = [p \in Procs |-> Idle]
    /\ lock = 0

SpecRecency == InitRecency /\ [][NextRecency]_vars

\* no history entry yet
InitHistory ==
    /\ level = "history"
    /\ lists = {}
    /\ sections = {}
    /\ items = {}
    /\ pre = EmptyStore
    /\ history = {}
    /\ read = NoRead
    /\ last = NoCall
    /\ procs = [p \in Procs |-> Idle]
    /\ lock = 0

SpecHistory == InitHistory /\ [][NextHistory]_vars

Init == InitLists \/ InitSections \/ InitItems \/ InitHistory

Next == NextLists \/ NextSections \/ NextItemsLevel \/ NextHistory

Spec == Init /\ [][Next]_vars

-----------------------------------------------------------------------------
(* What the recorded call did: vocabulary of the properties *)

Did(op) == last.op = op /\ ~last.err

Orders(rows) == {r.sort_order : r \in rows}

\* the sort_order values of rows are exactly 0..n-1, each held once
Dense(rows) ==
    /\ Orders(rows) = 0..(Cardinality(rows) - 1)
    /\ Cardinality(Orders(rows)) = Cardinality(rows)

\* the recorded call reordered item last.id inside its own section
SameSectionReorder ==
    \/ Did("reorderItemInSection")
    \/ /\ Did("MoveItemToSectionAtPosition")
       /\ RowOf(pre.items, last.id).section_id = last.dst

\* the recorded call moved item last.id from its section to another, last.dst
CrossSectionMove ==
    /\ Did("MoveItemToSectionAtPosition")
    /\ RowOf(pre.items, last.id).section_id # last.dst

MovedBefore == RowOf(pre.items, last.id)
MovedAfter == RowOf(items, last.id)
SourceSection == MovedBefore.section_id

-----------------------------------------------------------------------------
(* C1: after a same-section reorder of any item, completed or not, to any   *)
(* position, the incomplete items of that section hold exactly the          *)
(* sort_order values 0..n-1, without gap or duplicate.                      *)

C1_ReorderDense ==
    SameSectionReorder => Dense(ActiveOf(items, SourceSection))

-----------------------------------------------------------------------------
(* C2: after a cross-section move to a position, the incomplete items of    *)
(* the destination and those of the source each hold 0..n-1 (as claimed).   *)

DenseDestination ==
    /\ Dense(ActiveOf(pre.items, last.dst))
    /\ ActiveOf(pre.items, last.dst) # {} \/ ItemsOf(pre.items, last.dst) = {}

-----------------------------------------------------------------------------
(* C3: a cross-section move to target order t writes the moved item with    *)
(* section_id = destination and sort_order = t, raises by exactly 1 every   *)
(* destination item (completed or not) whose sort_order was >= t, and       *)
(* leaves every other item as it was; t is the order the position stands    *)
(* for: the first incomplete item's for a position <= 0, the last one's + 1 *)
(* for a position >= their count, the order of the incomplete item at that  *)
(* position otherwise, and max + 1 of the destination when it has no        *)
(* incomplete item.                                                         *)

\* the order value position pos stands for among the rows dest of a section
PositionOrder(dest, pos) ==
    LET act == {r \in dest : ~r.completed}
    IN  IF act = {} THEN MaxSortOrder(dest) + 1
        ELSE IF pos <= 0
        THEN CHOOSE v \in Orders(act) : \A w \in Orders(act) : v <= w
        ELSE IF pos >= Cardinality(act) THEN MaxSortOrder(act) + 1
        ELSE CHOOSE v \in Orders(act) :
                /\ Cardinality({r \in act : r.sort_order < v}) <= pos
                /\ pos < Cardinality({r \in act : r.sort_order <= v})

C3_CrossMoveFrame ==
    CrossSectionMove =>
        LET t == PositionOrder(ItemsOf(pre.items, last.dst), last.pos)
        IN  /\ {i.id : i \in items} = {i.id : i \in pre.items}
            /\ MovedAfter = [MovedBefore EXCEPT !.section_id = last.dst,
                                                !.sort_order = t]
            /\ \A i \in pre.items \ {MovedBefore} :
                 RowOf(items, i.id) =
                    IF i.section_id = last.dst /\ i.sort_order >= t
                    THEN [i EXCEPT !.sort_order = @ + 1]
                    ELSE i

\* position 1 of a destination holding incomplete items at 0 and 1 and a
\* completed one, with an item left behind in the source
C3_Witness ==
    /\ CrossSectionMove
    /\ last.pos = 1
    /\ Orders(ActiveOf(pre.items, last.dst)) = {0, 1}
    /\ MovedAfter.sort_order = 1
    /\ \E i \in pre.items : /\ i.section_id = last.dst
                            /\ i.sort_order = 1
                            /\ RowOf(items, i.id).sort_order = 2
    /\ \E i \in pre.items : /\ i.section_id = last.dst
                            /\ i.sort_order = 0
                            /\ RowOf(items, i.id).sort_order = 0

-----------------------------------------------------------------------------
(* Sibling groups of the recorded move-by-one call *)

ListMoves == {"MoveListUp", "MoveListDown"}
SectionMoves == {"MoveSectionUp", "MoveSectionDown"}
ItemMoves == {"MoveItemUp", "MoveItemDown"}
UpMoves == {"MoveListUp", "MoveSectionUp", "MoveItemUp"}
DownMoves == {"MoveListDown", "MoveSectionDown", "MoveItemDown"}

\* a move-by-one call on an existing entity returned
Moved == last.op \in UpMoves \cup DownMoves /\ ~last.err

TableBefore ==
    IF last.op \in ListMoves THEN pre.lists
    ELSE IF last.op \in SectionMoves THEN pre.sections ELSE pre.items

TableAfter ==
    IF last.op \in ListMoves THEN lists
    ELSE IF last.op \in SectionMoves THEN sections ELSE items

Container(r) ==
    IF last.op \in ListMoves THEN 0
    ELSE IF last.op \in SectionMoves THEN r.list_id ELSE r.section_id

\* the moved entity's siblings (itself included) before and after the call
GroupBefore ==
    {r \in TableBefore : Container(r) = Container(RowOf(TableBefore, last.id))}
GroupAfter ==
    {r \in TableAfter : Container(r) = Container(RowOf(TableBefore, last.id))}
GroupIds == {r.id : r \in GroupBefore}

Before(id) == RowOf(GroupBefore, id).sort_order
After(id) == RowOf(GroupAfter, id).sort_order

\* how x stands to y: -1 before, 0 tied, 1 after
Rel(a, b) == IF a < b THEN -1 ELSE IF a = b THEN 0 ELSE 1

SameRel(x, y) == Rel(Before(x), Before(y)) = Rel(After(x), After(y))

-----------------------------------------------------------------------------
(* C4: a single MoveUp/MoveDown of a list, a section or an item involves at *)
(* most the moved entity and one neighbour: the siblings not involved stand *)
(* to each other as before; and when the siblings' sort_order values were   *)
(* pairwise distinct (as they are after any sequence of creations and       *)
(* moves by one), the moved entity and that neighbour are the only pair     *)
(* whose relative order changes.                                            *)

-----------------------------------------------------------------------------
(* C5: moving the sibling with the smallest sort_order up, or the one with  *)
(* the largest down, returns success and leaves every sort_order of the     *)
(* group unchanged, gaps or not.                                            *)

AtExtreme ==
    \/ /\ last.op \in UpMoves
       /\ \A r \in GroupBefore : Before(last.id) <= r.sort_order
    \/ /\ last.op \in DownMoves
       /\ \A r \in GroupBefore : Before(last.id) >= r.sort_order

C5_BoundaryNoOp ==
    (Moved /\ AtExtreme) => GroupAfter = GroupBefore

-----------------------------------------------------------------------------
(* C6: a MoveUp (MoveDown) of an entity not at the extreme swaps its        *)
(* sort_order with that of the nearest sibling below (above) it, contiguous *)
(* or not.                                                                  *)

\* the siblings holding the next-smaller (next-larger) sort_order
Nearest ==
    IF last.op \in UpMoves
    THEN {n \in GroupBefore :
            /\ n.sort_order < Before(last.id)
            /\ \A r \in GroupBefore :
                 r.sort_order < Before(last.id) => r.sort_order <= n.sort_order}
    ELSE {n \in GroupBefore :
            /\ n.sort_order > Before(last.id)
            /\ \A r \in GroupBefore :
                 r.sort_order > Before(last.id) => r.sort_order >= n.sort_order}

C6_SwapNearest ==
    (Moved /\ Nearest # {}) =>
        \E n \in Nearest :
            /\ After(last.id) = n.sort_order
            /\ After(n.id) = Before(last.id)

-----------------------------------------------------------------------------
(* C7: after SetActiveList(X) returned success, exactly one list is active  *)
(* and it is X, also when X names no list.                                  *)

ActiveLists == {l \in lists : l.is_active}

C7_ActiveIsX ==
    Did("SetActiveList") =>
        /\ Cardinality(ActiveLists) = 1
        /\ \A l \in ActiveLists : l.id = last.id

-----------------------------------------------------------------------------
(* C8: whenever a list exists, exactly one list is active.                  *)

C8_ExactlyOneActive ==
    lists # {} => Cardinality(ActiveLists) = 1

-----------------------------------------------------------------------------
(* C9: in every state a reader can see, also while SetActiveList calls for  *)
(* different lists run concurrently with CreateList, at most one list is    *)
(* active.                                                                  *)

C9_AtMostOneActive == Cardinality(ActiveLists) <= 1

\* one caller is about to commit list x as active while another has begun
\* activating a different list, a third has read the maximum for a new list,
\* and the committed active list is neither
C9_Witness ==
    \E p, q, r \in Procs :
        /\ procs[p].pc = "activated"
        /\ procs[q].pc = "begun"
        /\ procs[r].pc = "read"
        /\ procs[p].id # procs[q].id
        /\ \E l \in ActiveLists : l.id \notin {procs[p].id, procs[q].id}

-----------------------------------------------------------------------------
(* C10: a created list, section or item gets max(sort_order of its sibling  *)
(* group) + 1, or 0 in an empty group, so that it sorts after every         *)
(* sibling, and no existing row changes.                                    *)

Creations == {"CreateList", "CreateSectionForList", "CreateItem"}

CreatedIn == IF last.op = "CreateList" THEN lists
             ELSE IF last.op = "CreateSectionForList" THEN sections ELSE items

CreatedInBefore == IF last.op = "CreateList" THEN pre.lists
                   ELSE IF last.op = "CreateSectionForList" THEN pre.sections
                   ELSE pre.items

\* the rows that were in the sibling group the new row joined
SiblingsBefore ==
    IF last.op = "CreateList" THEN pre.lists
    ELSE IF last.op = "CreateSectionForList"
    THEN {s \in pre.sections : s.list_id = last.dst}
    ELSE {i \in pre.items : i.section_id = last.dst}

C10_AppendOrder ==
    last.op \in Creations =>
        LET new == RowOf(CreatedIn, last.id)
        IN  /\ CreatedIn = CreatedInBefore \cup {new}
            /\ new \notin CreatedInBefore
            /\ new.sort_order = IF SiblingsBefore = {} THEN 0
                                ELSE MaxSortOrder(SiblingsBefore) + 1
            /\ \A r \in SiblingsBefore : r.sort_order < new.sort_order
            /\ lists = IF last.op = "CreateList" THEN CreatedIn ELSE pre.lists
            /\ sections = IF last.op = "CreateSectionForList"
                          THEN CreatedIn ELSE pre.sections
            /\ items = IF last.op = "CreateItem" THEN CreatedIn ELSE pre.items

\* a section created next to the one section of its list, while the other
\* list holds a section whose sort_order is not smaller than the new one
C10_Witness ==
    /\ last.op = "CreateSectionForList"
    /\ Cardinality(SiblingsBefore) = 1
    /\ RowOf(sections, last.id).sort_order = 1
    /\ \E s \in pre.sections : s.list_id # last.dst /\ s.sort_order >= 1

-----------------------------------------------------------------------------
(* C13: a call that names a list, section or item that does not exist       *)
(* returns an error (Not-Found) and leaves every table as it was.           *)

OnLists == {"SetActiveList", "DeleteList", "MoveListUp", "MoveListDown"}
OnSections == {"DeleteSection", "MoveSectionUp", "MoveSectionDown"}
OnItems == {"DeleteItem", "MoveItemUp", "MoveItemDown", "MoveItemToSection",
            "MoveItemToSectionAtPosition", "reorderItemInSection"}

\* the recorded call named an entity that did not exist when it began
UnknownId ==
    \/ last.op \in OnLists /\ ~Exists(pre.lists, last.id)
    \/ last.op \in OnSections /\ ~Exists(pre.sections, last.id)
    \/ last.op \in OnItems /\ ~Exists(pre.items, last.id)

C13_NotFound == UnknownId => last.err /\ Store = pre

-----------------------------------------------------------------------------
(* C17: in every state an item operation leaves, no two incomplete items of *)
(* one section have the same sort_order.                                    *)

C17_IncompleteDistinct ==
    \A a, b \in items :
        (a.id # b.id /\ a.section_id = b.section_id
            /\ ~a.completed /\ ~b.completed) => a.sort_order # b.sort_order

-----------------------------------------------------------------------------
(* C18: after any sequence of list creations, deletions and moves by one no *)
(* two lists have the same sort_order, and after any sequence of section    *)
(* creations, deletions and moves by one no two sections of one list have   *)
(* the same sort_order.                                                     *)

C18_UniqueOrders ==
    /\ \A a, b \in lists : a.id # b.id => a.sort_order # b.sort_order
    /\ \A a, b \in sections :
          (a.id # b.id /\ a.list_id = b.list_id) => a.sort_order # b.sort_order

\* a section moved over a gap in its list while a section of the other list
\* holds the sort_order it arrived at
C18_Witness ==
    /\ last.op \in SectionMoves /\ ~last.err
    /\ sections # pre.sections
    /\ \E s \in pre.sections : /\ s.list_id = RowOf(pre.sections, last.id).list_id
                               /\ s.id # last.id
                               /\ RowOf(sections, s.id) = s
    /\ \E s \in sections : /\ s.list_id # RowOf(sections, last.id).list_id
                           /\ s.sort_order = RowOf(sections, last.id).sort_order

-----------------------------------------------------------------------------
(* C12: deleting a list removes that list, its sections and the items of    *)
(* those sections; deleting a section removes that section and its items;   *)
(* deleting an item or a history entry removes that one row; nothing else   *)
(* in any table changes.                                                    *)

Without(rows, id) == {r \in rows : r.id # id}

C12_DeleteFrame ==
    /\ Did("DeleteList") =>
          /\ lists = Without(pre.lists, last.id)
          /\ sections = {s \in pre.sections : s.list_id # last.id}
          /\ items = {i \in pre.items :
                        RowOf(pre.sections, i.section_id).list_id # last.id}
          /\ history = pre.history
    /\ Did("DeleteSection") =>
          /\ sections = Without(pre.sections, last.id)
          /\ items = {i \in pre.items : i.section_id # last.id}
          /\ lists = pre.lists /\ history = pre.history
    /\ Did("DeleteItem") =>
          /\ items = Without(pre.items, last.id)
          /\ lists = pre.lists /\ sections = pre.sections
          /\ history = pre.history
    /\ Did("DeleteItemHistory") =>
          /\ history = Without(pre.history, last.id)
          /\ lists = pre.lists /\ sections = pre.sections /\ items = pre.items

\* an item deleted from a section that keeps another item, while the other
\* section holds an item too
C12_Witness ==
    /\ Did("DeleteItem")
    /\ Exists(pre.items, last.id)
    /\ \E i, j \in items :
          /\ i.section_id = RowOf(pre.items, last.id).section_id
          /\ j.section_id # i.section_id

-----------------------------------------------------------------------------
(* C20: names that differ only in letter case share one history entry: no   *)
(* two entries have names equal up to case, a save of a name some entry     *)
(* already holds up to case adds one to that entry's usage_count and adds   *)
(* no entry, and a save of a new name adds one entry with usage_count 1.    *)

\* the lower-case form of a letter
LowerChar(c) ==
    CASE c = "M" -> "m"
      [] c = "I" -> "i"
      [] c = "E'" -> "e'"
      [] OTHER -> c

Lower(name) == [k \in DOMAIN name |-> LowerChar(name[k])]

Saves == {"SaveItemHistory", "SaveItemHistoryTx"}

\* the entries that held the saved name, up to case, before the save
SameName == {h \in pre.history : Lower(h.name) = Lower(last.result)}

C20_CaseInsensitiveKey ==
    /\ \A a, b \in history : a.id # b.id => Lower(a.name) # Lower(b.name)
    /\ last.op \in Saves =>
          IF SameName = {}
          THEN /\ Cardinality(history) = Cardinality(pre.history) + 1
               /\ \E h \in history : /\ Lower(h.name) = Lower(last.result)
                                     /\ h.usage_count = 1
          ELSE /\ Cardinality(history) = Cardinality(pre.history)
               /\ \A h \in SameName :
                     RowOf(history, h.id).usage_count = h.usage_count + 1

-----------------------------------------------------------------------------
(* C19: the sequence GetItemsBySection returns holds every item of the      *)
(* section once, every incomplete item before every completed one, and      *)
(* within the incomplete and within the completed items the sort_order      *)
(* never decreases.                                                         *)

C19_DisplayOrder ==
    Did("GetItemsBySection") =>
        LET q == last.result
        IN  /\ {q[k] : k \in DOMAIN q} = ItemsOf(items, last.id)
            /\ Len(q) = Cardinality(ItemsOf(items, last.id))
            /\ \A a, b \in DOMAIN q :
                  a < b => /\ q[a].completed => q[b].completed
                           /\ q[a].completed = q[b].completed
                                 => q[a].sort_order <= q[b].sort_order

\* a section read whose first completed item has a smaller sort_order than
\* an incomplete item listed before it
C19_Witness ==
    /\ Did("GetItemsBySection")
    /\ Len(last.result) = 3
    /\ \E a, b \in DOMAIN last.result :
          /\ a < b
          /\ ~last.result[a].completed /\ last.result[b].completed
          /\ last.result[b].sort_order < last.result[a].sort_order

-----------------------------------------------------------------------------
(* C11: creations that run concurrently never give two rows of one sibling  *)
(* group the same sort_order (stated for CreateList: no two lists ever have *)
(* the same sort_order, whatever the interleaving of the callers).          *)

C11_NoCollision ==
    level = "concurrent" =>
        \A a, b \in lists : a.id # b.id => a.sort_order # b.sort_order

-----------------------------------------------------------------------------
(* C16: the tree a read returns while items move between sections holds     *)
(* every item exactly once (no item is created or deleted here, so every    *)
(* item exists throughout the read).                                        *)

\* the places of the returned tree that hold item id
Occurrences(id) ==
    {<<k, j>> \in (DOMAIN read.tree) \X (1..MaxItems) :
        j \in DOMAIN read.tree[k].items /\ read.tree[k].items[j].id = id}

\* the items of the list that was read
ItemsOfList(listID) ==
    {i \in items : \E sec \in SectionsOf(sections, listID) : sec.id = i.section_id}

C16_ReadOnce ==
    read.pc = "done" =>
        \A i \in ItemsOfList(read.list) : Cardinality(Occurrences(i.id)) = 1

-----------------------------------------------------------------------------
(* C14: when a statement of a multi-row operation fails, the operation      *)
(* returns an error and every table is as it was before the call.           *)

MultiRowOps == TxOps \cup {"RestartList"}

C14_AllOrNothing ==
    (last.failed # 0 /\ last.op \in MultiRowOps) => last.err /\ Store = pre

-----------------------------------------------------------------------------
(* C15: when a statement of an operation fails, the operation returns an    *)
(* error to its caller.                                                     *)

C15_ErrorReported == last.failed # 0 => last.err

-----------------------------------------------------------------------------
(* C26: a move of an incomplete item to position p of another section whose *)
(* incomplete items have pairwise distinct sort_orders puts the item at     *)
(* index min(max(p, 0), c) of the destination's incomplete items in display *)
(* order, c being their number before the move; with c = 0 the item gets    *)
(* the destination's largest sort_order plus one, or 0 in an empty section. *)

Distinct(rows) == Cardinality(Orders(rows)) = Cardinality(rows)

\* min(max(p, 0), c)
Index(p, c) == IF p < 0 THEN 0 ELSE IF p > c THEN c ELSE p

\* the incomplete items of section sec listed before the moved item
AheadOfMoved(sec) ==
    {i \in ActiveOf(items, sec) :
        i.id # last.id /\ i.sort_order < MovedAfter.sort_order}

\* no other incomplete item of section sec shares the moved item's sort_order
MovedAlone(sec) ==
    \A i \in ActiveOf(items, sec) :
        i.id # last.id => i.sort_order # MovedAfter.sort_order

C26_CrossMovePosition ==
    (CrossSectionMove /\ ~MovedBefore.completed
        /\ Distinct(ActiveOf(pre.items, last.dst))) =>
        LET c == Cardinality(ActiveOf(pre.items, last.dst))
            dest == ItemsOf(pre.items, last.dst)
        IN  /\ MovedAfter.section_id = last.dst
            /\ ~MovedAfter.completed
            /\ Cardinality(AheadOfMoved(last.dst)) = Index(last.pos, c)
            /\ MovedAlone(last.dst)
            /\ c = 0 => MovedAfter.sort_order =
                            IF dest = {} THEN 0 ELSE MaxSortOrder(dest) + 1

\* an item moved between the two incomplete items of the destination
C26_Witness ==
    /\ CrossSectionMove /\ ~MovedBefore.completed
    /\ Cardinality(ActiveOf(pre.items, last.dst)) = 2
    /\ Distinct(ActiveOf(pre.items, last.dst))
    /\ last.pos = 1
    /\ Cardinality(AheadOfMoved(last.dst)) = 1

-----------------------------------------------------------------------------
(* C27: a reorder of an item to position p inside its section puts it at    *)
(* index min(max(p, 0), m) of the other incomplete items, m being their     *)
(* number, keeps these in their previous relative order, and leaves every   *)
(* completed sibling and every item of another section as it was.           *)

OtherActiveBefore ==
    {i \in ActiveOf(pre.items, SourceSection) : i.id # last.id}

C27_ReorderFrame ==
    SameSectionReorder =>
        /\ {i.id : i \in items} = {i.id : i \in pre.items}
        /\ MovedAfter.section_id = SourceSection
        /\ MovedAfter.completed = MovedBefore.completed
        /\ Cardinality({o \in OtherActiveBefore :
                          RowOf(items, o.id).sort_order < MovedAfter.sort_order})
              = Index(last.pos, Cardinality(OtherActiveBefore))
        /\ \A o \in OtherActiveBefore :
              RowOf(items, o.id).sort_order # MovedAfter.sort_order
        /\ \A a, b \in OtherActiveBefore :
              a.sort_order < b.sort_order =>
                  RowOf(items, a.id).sort_order < RowOf(items, b.id).sort_order
        /\ \A i \in pre.items :
              IF i.id # last.id /\ (i.completed \/ i.section_id # SourceSection)
              THEN RowOf(items, i.id) = i
              ELSE /\ RowOf(items, i.id).section_id = i.section_id
                   /\ RowOf(items, i.id).completed = i.completed

\* a reorder to a negative position in a section that holds another
\* incomplete item and a completed one, both ahead of the moved item
C27_Witness ==
    /\ SameSectionReorder
    /\ last.pos < 0
    /\ \E o \in OtherActiveBefore : o.sort_order < MovedBefore.sort_order
    /\ \E i \in ItemsOf(pre.items, SourceSection) :
          i.completed /\ i.sort_order < MovedBefore.sort_order
    /\ MovedAfter.sort_order = 0

-----------------------------------------------------------------------------
(* C28: MoveItemToSectionAtPosition with the item's own section as the      *)
(* destination leaves the store in a state reorderItemInSection with the    *)
(* same position leaves it in, and changes no list and no section.          *)

\* the item tables reorderItemInSection(id, pos) can leave
ReorderResults(its, id, pos) ==
    {ItemsAfterReorder(its, id, pos, q) : q \in RowsAsc(OtherItems(its, id))}

\* the item tables the shift-and-insert path can leave
ShiftResults(its, id, dst, pos) ==
    {ItemsAfterMoveAtPosition(its, id, dst, pos, q) :
        q \in RowsAsc(ActiveOf(its, dst))}

MoveInsideSection ==
    /\ Did("MoveItemToSectionAtPosition")
    /\ MovedBefore.section_id = last.dst

C28_SameAsReorder ==
    MoveInsideSection =>
        /\ items \in ReorderResults(pre.items, last.id, last.pos)
        /\ lists = pre.lists /\ sections = pre.sections

\* a move inside the section whose result the shift-and-insert path cannot
\* produce
C28_Witness ==
    /\ MoveInsideSection
    /\ items \notin ShiftResults(pre.items, last.id, last.dst, last.pos)
    /\ items # pre.items

-----------------------------------------------------------------------------
(* C25: DeleteList, DeleteSection, DeleteItem, DeleteSections and           *)
(* DeleteCompletedItems remove no history entry and change no usage_count;  *)
(* only a history save or a history delete changes the entries.             *)

HistoryOps ==
    {"SaveItemHistory", "SaveItemHistoryTx", "DeleteItemHistory",
     "DeleteItemHistoryBatch"}

Deletions ==
    {"DeleteList", "DeleteSection", "DeleteItem", "DeleteSections",
     "DeleteCompletedItems"}

C25_HistoryFrame ==
    (last.op \notin HistoryOps \cup {"init"}) => history = pre.history

\* a deletion that removed a section a history entry names, and its items
C25_Witness ==
    /\ last.op \in Deletions
    /\ \E h \in history : ~Exists(sections, h.last_section_id)
                          /\ Exists(pre.sections, h.last_section_id)
    /\ items # pre.items

-----------------------------------------------------------------------------
(* C21: when k callers have saved the same name, up to letter case, at the  *)
(* same time, the history holds one entry of that name and its usage_count  *)
(* is k more than before (k when the name was new).                         *)

Saved == {p \in Procs : procs[p].pc = "saved"}

SavedName(p) == CHOOSE name \in procs[p].view : TRUE

\* the callers that saved the name p saved, up to case
SavedWith(p) == {q \in Saved : Lower(SavedName(q)) = Lower(SavedName(p))}

Named(hs, name) == {h \in hs : Lower(h.name) = Lower(name)}

UsageBefore(name) ==
    IF Named(pre.history, name) = {} THEN 0
    ELSE (CHOOSE h \in Named(pre.history, name) : TRUE).usage_count

C21_NoLostIncrement ==
    \A p \in Saved :
        /\ Cardinality(Named(history, SavedName(p))) = 1
        /\ \A h \in Named(history, SavedName(p)) :
              h.usage_count = UsageBefore(SavedName(p))
                                + Cardinality(SavedWith(p))

-----------------------------------------------------------------------------
(* Suggestions: vocabulary of the properties *)

\* a call that scored the history against a query
Suggested ==
    \/ last.op = "GetItemSuggestions"
    \/ last.op = "GetSuggestions" /\ last.result[1] # <<>>

Asked == last.result[1]

Suggestions == last.result[2]

SuggestedNames == {Suggestions[k].name : k \in DOMAIN Suggestions}

\* the limit GetItemSuggestions applied
Applied == IF last.pos <= 0 THEN 10 ELSE last.pos

\* a limit that cuts nothing
LargeLimit == Applied >= Cardinality(pre.history)

BaseScore(name) == scoreSuggestion(name, Asked)

FinalScore(sug) == BaseScore(sug.name) + sug.usage_count \div 10

-----------------------------------------------------------------------------
(* C22: on the history Milk (usage 5), Almond Milk (usage 20), Silk (usage  *)
(* 1) the query "milk" scores Milk 1000 as the exact match, Almond Milk 200 *)
(* as a substring match and Silk 80 as a fuzzy match at distance 1, and the *)
(* suggestions are Milk, Almond Milk, Silk in this order.                   *)

Milk == <<"M", "i", "l", "k">>
AlmondMilk == <<"A", "l", "m", "o", "n", "d", " ", "M", "i", "l", "k">>
Silk == <<"S", "i", "l", "k">>

ExampleAsked ==
    /\ Suggested
    /\ Asked = <<"m", "i", "l", "k">>
    /\ {h.name : h \in pre.history} = {Milk, AlmondMilk, Silk}
    /\ Applied >= 3

C22_Example ==
    ExampleAsked =>
        /\ BaseScore(Milk) = 1000
        /\ BaseScore(AlmondMilk) = 200
        /\ BaseScore(Silk) = 100 - 20 * levenshteinDistance(Silk, Asked)
        /\ levenshteinDistance(Silk, Asked) = 1
        /\ Len(Suggestions) = 3
        /\ Suggestions[1].name = Milk /\ Suggestions[1].usage_count = 5
        /\ Suggestions[2].name = AlmondMilk /\ Suggestions[2].usage_count = 20
        /\ Suggestions[3].name = Silk /\ Suggestions[3].usage_count = 1

C22_Witness ==
    /\ ExampleAsked
    /\ last.op = "GetItemSuggestions"
    /\ Len(Suggestions) = 3
    /\ Suggestions[3].name = Silk

-----------------------------------------------------------------------------
(* C23: the suggestions of GetItemSuggestions come in non-increasing final  *)
(* score (base score plus a tenth of the usage count, rounded down), equal  *)
(* scores in non-increasing usage count, and are at most the limit, 10 when *)
(* the limit given is zero or negative.                                     *)

C23_Ranked ==
    Suggested =>
        /\ Len(Suggestions) <= (IF last.pos <= 0 THEN 10 ELSE last.pos)
        /\ \A k, j \in DOMAIN Suggestions :
              k < j =>
                 /\ FinalScore(Suggestions[k]) >= FinalScore(Suggestions[j])
                 /\ FinalScore(Suggestions[k]) = FinalScore(Suggestions[j])
                      => Suggestions[k].usage_count
                           >= Suggestions[j].usage_count

\* more than ten names match, the limit given is not positive, ten come
\* back and two of equal score come in the order of their usage counts
C23_Witness ==
    /\ last.op = "GetItemSuggestions"
    /\ last.pos <= 0
    /\ Cardinality({h \in pre.history : BaseScore(h.name) > 0}) > 10
    /\ Len(Suggestions) = 10
    /\ \E k \in 1..9 :
          /\ FinalScore(Suggestions[k]) = FinalScore(Suggestions[k + 1])
          /\ Suggestions[k].usage_count > Suggestions[k + 1].usage_count

-----------------------------------------------------------------------------
(* C24: a request for suggestions without a query and without a limit gets  *)
(* up to 100 history entries, by usage count and then recency, both         *)
(* descending, unscored and unfiltered.                                     *)

MinOf(a, b) == IF a < b THEN a ELSE b

BulkRequest ==
    /\ last.op = "GetSuggestions"
    /\ last.result[1] = <<>>
    /\ last.result[3] = <<>>

\* the entry that came back as the k-th suggestion
EntryAt(k) == CHOOSE h \in pre.history : h.name = Suggestions[k].name

C24_BulkDefault ==
    BulkRequest =>
        /\ Len(Suggestions) = MinOf(100, Cardinality(pre.history))
        /\ \A k \in DOMAIN Suggestions :
              \E h \in pre.history : ItemSuggestion(h) = Suggestions[k]
        /\ \A k, j \in DOMAIN Suggestions :
              k < j =>
                 /\ Suggestions[k].name # Suggestions[j].name
                 /\ EntryAt(k).usage_count >= EntryAt(j).usage_count
                 /\ EntryAt(k).usage_count = EntryAt(j).usage_count
                      => EntryAt(k).last_used_at >= EntryAt(j).last_used_at

-----------------------------------------------------------------------------
(* C29: GetItemSuggestions returns no entry whose base score is 0, however  *)
(* often it was used, and with a limit that cuts nothing it returns every   *)
(* entry of the rows it scored whose base score is positive.                *)

\* the rows scored: the first PoolLimit of the history
InPool(h) == \E rows \in HistoryRows(pre.history, PoolLimit) :
                \E k \in DOMAIN rows : rows[k] = h

C29_PositiveBaseScore ==
    Suggested =>
        /\ \A h \in pre.history :
              BaseScore(h.name) = 0 => h.name \notin SuggestedNames
        /\ LargeLimit =>
              \A h \in pre.history :
                  (InPool(h) /\ BaseScore(h.name) > 0)
                      => h.name \in SuggestedNames

\* an entry used ten times or more that does not match stays out while a
\* matching entry used less comes back
C29_Witness ==
    /\ Suggested /\ LargeLimit
    /\ \E h \in pre.history :
          /\ BaseScore(h.name) = 0
          /\ h.usage_count >= 10
          /\ h.name \notin SuggestedNames
    /\ \E h \in pre.history :
          /\ BaseScore(h.name) > 0
          /\ h.usage_count < 10
          /\ h.name \in SuggestedNames

-----------------------------------------------------------------------------
(* C30: for a query of three letters or more and a name that is no exact,   *)
(* prefix or substring match, an edit distance d between name and query,    *)
(* case ignored, of at most half the query's length (rounded down) gives    *)
(* the base score 100 - 20 * d and puts the name among the suggestions of a *)
(* limit that cuts nothing, whatever d is.                                  *)

NearMatch(name) ==
    /\ ToLower(name) # ToLower(Asked)
    /\ ~HasPrefix(ToLower(name), ToLower(Asked))
    /\ ~Contains(ToLower(name), ToLower(Asked))
    /\ levenshteinDistance(name, Asked) <= Len(Asked) \div 2

C30_FuzzyIncluded ==
    (Suggested /\ Len(Asked) >= 3) =>
        \A h \in pre.history :
            NearMatch(h.name) =>
                /\ BaseScore(h.name)
                      = 100 - 20 * levenshteinDistance(h.name, Asked)
                /\ LargeLimit => h.name \in SuggestedNames

-----------------------------------------------------------------------------
(* C36: MoveItemUp and MoveItemDown permute the sort_orders of one section: *)
(* every sort_order value is held by as many items of the section after the *)
(* call as before, at most two items change their sort_order, and no item   *)
(* changes its section or its completed flag, appears or disappears.        *)

ItemSwaps == {"MoveItemUp", "MoveItemDown"}

\* the number of items of section sec in its that hold sort_order v
Holders(its, sec, v) == Cardinality({i \in ItemsOf(its, sec) : i.sort_order = v})

C36_SwapFrame ==
    (last.op \in ItemSwaps /\ ~last.err) =>
        /\ {i.id : i \in items} = {i.id : i \in pre.items}
        /\ \A i \in pre.items :
              /\ RowOf(items, i.id).section_id = i.section_id
              /\ RowOf(items, i.id).completed = i.completed
        /\ \A sec \in SectionIds, v \in 0..(MaxOrder + 1) :
              Holders(items, sec, v) = Holders(pre.items, sec, v)
        /\ Cardinality({i \in pre.items :
                           RowOf(items, i.id).sort_order # i.sort_order}) <= 2

\* a call that exchanged the sort_orders of two items of a section that
\* holds a third
C36_Witness ==
    /\ last.op \in ItemSwaps /\ ~last.err
    /\ Cardinality({i \in pre.items :
                       RowOf(items, i.id).sort_order # i.sort_order}) = 2
    /\ Cardinality(ItemsOf(items, MovedAfter.section_id)) = 3

-----------------------------------------------------------------------------
(* C37: MoveItemUp on an incomplete item with an incomplete item of its     *)
(* section before it puts it one place earlier among the incomplete items   *)
(* of the section, whatever sort_orders the completed items hold; and       *)
(* MoveItemDown puts it one place later when an incomplete item follows it. *)

\* the incomplete items of the moved item's section that sort before it
EarlierActive(its) ==
    {i \in ActiveOf(its, RowOf(its, last.id).section_id) :
        i.sort_order < RowOf(its, last.id).sort_order}

LaterActive(its) ==
    {i \in ActiveOf(its, RowOf(its, last.id).section_id) :
        i.sort_order > RowOf(its, last.id).sort_order}

C37_OnePlace ==
    /\ (Did("MoveItemUp") /\ ~MovedBefore.completed
          /\ EarlierActive(pre.items) # {}) =>
          Cardinality(EarlierActive(items))
              = Cardinality(EarlierActive(pre.items)) - 1
    /\ (Did("MoveItemDown") /\ ~MovedBefore.completed
          /\ LaterActive(pre.items) # {}) =>
          Cardinality(LaterActive(items))
              = Cardinality(LaterActive(pre.items)) - 1

-----------------------------------------------------------------------------
(* C39: MoveItemDown of an item that has an item after it in its section,   *)
(* followed by MoveItemUp of the same item, leaves every item with the      *)
(* sort_order it had; and so does MoveItemUp followed by MoveItemDown for   *)
(* an item that has an item before it.                                      *)

C39_RoundTrip ==
    /\ (last.op = "MoveItemDown,MoveItemUp"
          /\ NextItems(pre.items, last.id) # {}) => items = pre.items
    /\ (last.op = "MoveItemUp,MoveItemDown"
          /\ PrevItems(pre.items, last.id) # {}) => items = pre.items

-----------------------------------------------------------------------------
(* C34: a save of name N with section S, by SaveItemHistory, by the upsert  *)
(* of ApplyTemplateToList or by SaveItemHistoryTx, leaves the entry of N    *)
(* with last section S and last-used time the time of the save, so that no  *)
(* entry is more recent than the one just saved.                            *)

TimedSaves == {"SaveItemHistory", "ApplyTemplateToList", "SaveItemHistoryTx"}

\* the entries of the saved name after the save
SavedEntries == {h \in history : Lower(h.name) = Lower(last.result)}

C34_SaveStamps ==
    (level = "recency" /\ last.op \in TimedSaves) =>
        /\ SavedEntries # {}
        /\ \A e \in SavedEntries :
              /\ e.last_section_id = last.dst
              /\ e.last_used_at = last.pos
              /\ \A h \in history : h.last_used_at <= e.last_used_at

-----------------------------------------------------------------------------
(* C38: when MoveItemToSectionAtPosition(item, S, p) returns without error, *)
(* the item is in section S, other moves of the item running beside the     *)
(* call included.                                                           *)

C38_InDestination ==
    Did("MoveItemToSectionAtPosition") => MovedAfter.section_id = last.dst

-----------------------------------------------------------------------------
(* Strings as their characters: vocabulary of the properties *)

\* the characters of a string, each the bytes that encode it
RECURSIVE Characters(_)
Characters(str) ==
    IF str = <<>> THEN <<>>
    ELSE IF str[1] = "C3" /\ Len(str) >= 2
    THEN <<SubSeq(str, 1, 2)>> \o Characters(SubSeq(str, 3, Len(str)))
    ELSE <<SubSeq(str, 1, 1)>> \o Characters(Tail(str))

\* the characters of a string after case folding
Folded(str) == Characters(ToLower(str))

\* the least number of insertions, deletions and substitutions of one
\* character that turn x into y
RECURSIVE Edits(_, _)
Edits(x, y) ==
    IF x = <<>> THEN Len(y)
    ELSE IF y = <<>> THEN Len(x)
    ELSE LET del == Edits(Tail(x), y) + 1
             ins == Edits(x, Tail(y)) + 1
             sub == Edits(Tail(x), Tail(y))
                      + (IF Head(x) = Head(y) THEN 0 ELSE 1)
         IN  IF del <= ins /\ del <= sub THEN del
             ELSE IF ins <= sub THEN ins ELSE sub

-----------------------------------------------------------------------------
(* C33: levenshteinDistance(a, b) is the least number of insertions,        *)
(* deletions and substitutions of one character that turn a into b, both    *)
(* case-folded; it is the same for (b, a), it is 0 exactly when a and b are *)
(* equal up to case, and it is the length of the other string when one is   *)
(* empty.                                                                   *)

Measured == last.op = "levenshteinDistance"

C33_EditDistance ==
    Measured =>
        LET a == last.result[1]
            b == last.result[2]
        IN  /\ last.pos = Edits(Folded(a), Folded(b))
            /\ last.pos = levenshteinDistance(b, a)
            /\ last.pos = 0 <=> Folded(a) = Folded(b)
            /\ a = <<>> => last.pos = Len(Characters(b))
            /\ b = <<>> => last.pos = Len(Characters(a))

-----------------------------------------------------------------------------
(* C31: when the name as a whole is no match, the word score comes from the *)
(* least edit distance w between the query and a word of the name: with     *)
(* w <= floor(query length / 2) the base score is 80 - 15 * w, in whatever  *)
(* order the name has its words.                                            *)

\* the edit distances between the query and the words of the name
WordDistances(name) ==
    {levenshteinDistance(Fields(ToLower(name))[k], ToLower(Asked))
     : k \in DOMAIN Fields(ToLower(name))}

LeastOf(set) == CHOOSE w \in set : \A v \in set : w <= v

\* neither an exact, prefix or substring match nor a fuzzy match as a whole
WholeNameFails(name) ==
    /\ ToLower(name) # ToLower(Asked)
    /\ ~HasPrefix(ToLower(name), ToLower(Asked))
    /\ ~Contains(ToLower(name), ToLower(Asked))
    /\ Len(Asked) >= 3
    /\ levenshteinDistance(name, Asked) > Len(Asked) \div 2

C31_BestWord ==
    Suggested =>
        \A h \in pre.history :
            (/\ WholeNameFails(h.name)
             /\ WordDistances(h.name) # {}
             /\ LeastOf(WordDistances(h.name)) <= Len(Asked) \div 2) =>
                BaseScore(h.name) = 80 - 15 * LeastOf(WordDistances(h.name))

-----------------------------------------------------------------------------
(* C32: the base score is 1000 when name and query are equal up to case,    *)
(* else 500 when the name begins with the query up to case, else 200 when   *)
(* it contains the query up to case; and failing these a query of fewer     *)
(* than 3 characters gives the base score 0.                                *)

C32_ScoreClasses ==
    Suggested =>
        \A h \in pre.history :
            LET n == ToLower(h.name)
                q == ToLower(Asked)
            IN  IF n = q THEN BaseScore(h.name) = 1000
                ELSE IF HasPrefix(n, q) THEN BaseScore(h.name) = 500
                ELSE IF Contains(n, q) THEN BaseScore(h.name) = 200
                ELSE Len(Characters(Asked)) < 3 => BaseScore(h.name) = 0

-----------------------------------------------------------------------------
(* C35: GetItemSuggestions scores only the first PoolLimit entries of the   *)
(* history by usage count, then by last use: an entry that PoolLimit others *)
(* precede is not returned, an exact match either; and in a history of at   *)
(* most PoolLimit entries every entry that matches is a candidate, left out *)
(* only by the limit.                                                       *)

Preceding(h) == {g \in pre.history : RowBefore(g, h)}

C35_Pool ==
    (Suggested /\ last.op = "GetItemSuggestions") =>
        /\ \A h \in pre.history :
              Cardinality(Preceding(h)) >= PoolLimit
                  => h.name \notin SuggestedNames
        /\ Cardinality(pre.history) <= PoolLimit =>
              \A h \in pre.history :
                  BaseScore(h.name) > 0 =>
                      \/ h.name \in SuggestedNames
                      \/ Len(Suggestions) = Applied

\* an exact match outside the pool stays out while a substring match inside
\* it comes back
C35_Witness ==
    /\ Suggested /\ last.op = "GetItemSuggestions"
    /\ \E h \in pre.history :
          /\ Cardinality(Preceding(h)) >= PoolLimit
          /\ ToLower(h.name) = ToLower(Asked)
          /\ h.name \notin SuggestedNames
    /\ \E h \in pre.history :
          /\ BaseScore(h.name) > 0
          /\ h.name \in SuggestedNames

====
